---------------------------- MODULE Spec2Model ----------------------------
(***************************************************************************)
(* A model of linx.py, the Linux driver of the Lian Li 8.8" LCD + LED ring. *)
(*                                                                         *)
(* The driver is a command line program: each run executes one command,    *)
(* so the module holds one specification per part of the driver:          *)
(*   SpecCodec    _ts, _des_encrypt, _make_header, send_cmd,               *)
(*                send_with_payload (the bytes handed to the transport)    *)
(*   SpecConnect  wake_from_desktop, LCDDevice.connect, LEDDevice.connect  *)
(*                and main around them, with the device changing its USB   *)
(*                mode; SpecConnectFair adds that the program keeps running *)
(*   SpecSend     _flush_read, _send_and_read and _reconnect, with the     *)
(*                LCD answering late and leaving the bus                   *)
(*   SpecStream   check_h264_block, play_h264, _wait_buffer, stop_play;    *)
(*                SpecStreamFair adds that play_h264 keeps running         *)
(*   SpecDisplay  set_brightness, set_rotation, set_framerate,             *)
(*                prepare_display                                          *)
(*   SpecLed      LEDDevice._send, set_leds, set_all, off                  *)
(*   SpecAmbi     AmbilightThread: update_frame, run, stop;                *)
(*                SpecAmbiFair adds that the threads keep running          *)
(*   SpecSample   sample_edge_colors                                       *)
(*   SpecPlay     play_h264_with_ambilight: the main thread, decode_loop,  *)
(*                the decoder processes and the AmbilightThread            *)
(*   SpecShutdown the LED handle at the end of playback: set_leds of the   *)
(*                worker and off(), close() of the main thread, by packet  *)
(* The variables of the parts a specification does not run stay at their   *)
(* idle values.                                                            *)
(*                                                                         *)
(* Sequences are 1-based: byte k of the source is element k + 1 here.      *)
(***************************************************************************)
EXTENDS Integers, Sequences, FiniteSets, TLC

Min(a, b) == IF a < b THEN a ELSE b
Max(a, b) == IF a > b THEN a ELSE b

Zeros(n) == [i \in 1..n |-> 0]

(***************************************************************************)
(* Program constants.                                                      *)
(***************************************************************************)
PlainLen == 500
PacketLen == 512
BlockLen == 8
ArgOffset == 8
TrailerA == 161
TrailerB == 26
MarkerA == 26
MarkerB == 109
\* DES_KEY = b'slv3tuzx'
DES_KEY == <<115, 108, 118, 51, 116, 117, 122, 120>>

CMD_ROTATE == 13
CMD_BRIGHTNESS == 14
CMD_SET_FRAMERATE == 15
CMD_GET_H264_BLOCK == 17
CMD_SET_CLOCK == 51
CMD_STOP_CLOCK == 52
CMD_PUSH_JPG == 101
CMD_PUSH_PNG == 102
CMD_START_PLAY1 == 119
CMD_START_PLAY2 == 120
CMD_START_PLAY == 121
CMD_QUERY_BLOCK == 122
CMD_STOP_PLAY == 123

\* LEDDevice.NUM_LEDS, LEDDevice.LEDS_PER_GROUP, lines 544-545
NUM_LEDS == 60
LEDS_PER_GROUP == 20

\* The three groups of set_leds, the length of an HID packet and its first
\* byte, lines 593-595
LED_GROUPS == 3
LED_PACKET_LEN == 64
LED_SET_CMD == 17

\* WIDTH, HEIGHT, lines 40-41
WIDTH == 480
HEIGHT == 1920

\* self.h264_buf_len, line 237
DEFAULT_BUF_LEN == 202752

\* for _ in range(200), line 458
WAIT_POLLS == 200

(***************************************************************************)
(* State.                                                                  *)
(***************************************************************************)
VARIABLES
    \* ---- command framing (SpecCodec) ----
    cmd,          \* the command id of the call
    data_at_8,    \* its argument bytes
    payload,      \* the raw payload of a send_with_payload call, <<>> for send_cmd
    kind,         \* "cmd": send_cmd, "payload": send_with_payload
    elapsed,      \* time.time() - _start_time in ms, as [hi, lo]: hi * 65536 + lo
    buf,          \* the 500-byte plaintext _make_header hands to _des_encrypt
    packet,       \* the frame _make_header returned
    sent,         \* the bytes handed to _send_and_read
    cstep,        \* "idle", "header" (frame built), "sent"
    ncalls,       \* calls made so far
    \* ---- the USB bus and mode switching (SpecConnect) ----
    bus,          \* "standby": HID 1a86:ad21 enumerated, "monitor": LCD 1cbe:a088
                  \* enumerated, "switching": between the two, "absent": unplugged
    wakeAccepted, \* the standby device has received SetMonitorMode
    hidKd,        \* a kernel driver is bound to interface 1 of the HID
    lcdKd,        \* a kernel driver is bound to interface 0 of the LCD
    command,      \* the command of this run of main: "wake" or "lcd"
    mpc,          \* position of main / LCDDevice.connect
    wpc,          \* position of wake_from_desktop, "off" outside it
    polls,        \* iterations of the polling loop of wake_from_desktop
    pollHit,      \* a poll found the LCD
    wakeWrote,    \* "no", "ok", "failed": the wake write of this run
    wakeRet,      \* "none", "true", "false", "raised"
    connProbes,   \* usb.core.find(LCD) calls made by connect
    firstProbe,   \* "none", "found", "absent": line 243
    hidProbe,     \* "none", "present", "absent": line 245
    connRet,      \* "none", "true", "false", "raised"
    lcdClaimed,   \* interface 0 of the LCD is claimed by this process
    hidClaimed,   \* interface 1 of the HID is claimed by this process
    hidLog,       \* the operations of this run on the HID
    lcdWrites,    \* bulk OUT writes of this run to the LCD
    runs,         \* runs of the program so far
    use_ambilight, \* main: --ambilight or --grayscale was given (and the LED
                  \* controller was found)
    ledBus,       \* the LED controller 1a86:ad20: "absent", "free", "busy"
                  \* (configured or claimed elsewhere: its USB calls raise)
    ledClaimed,   \* interface 0 of the LED controller is claimed by this process
    \* ---- the LCD transport (SpecSend) ----
    lcdOnBus,     \* the LCD is enumerated
    dev,          \* self.dev: "valid" (a handle of the enumerated device),
                  \* "stale" (the device has left the bus since), "none" (None)
    inq,          \* responses waiting on endpoint 0x81, each the number of the
                  \* send it answers
    late,         \* responses the device has not put on the endpoint yet
    spc,          \* position of _send_and_read
    sendNo,       \* number of the send in progress, 0 before the first
    nWrites,      \* bulk OUT writes attempted by this call
    nReconnects,  \* _reconnect calls of this call
    firstWriteFailed,
    reconnected,  \* "none", "ok", "notfound", "raised"
    retryFailed,
    readTimedOut,
    sret,         \* "none", "None", "resp", "raised"
    srespTag,     \* the send the returned response answers
    drops,        \* times the device has left the bus
    \* ---- H.264 streaming (SpecStream) ----
    fileExists,   \* os.path.exists(filepath)
    fileSize,     \* size of the stream file in bytes
    loop,         \* the loop argument
    playCmd,      \* the play_cmd argument
    playCount,    \* the play_count argument
    devBlock,     \* what the device answers to GetH264Block when it answers
    blockResp,    \* resp of check_h264_block, len = -1 for None
    h264_buf_len, \* self.h264_buf_len
    buf_len,      \* the local of play_h264
    ppc,          \* position of play_h264
    pos,          \* file position of f
    chunks,       \* chunk packets handed to _send_and_read in this pass:
                  \* command, argument region, file offset and length of the
                  \* payload, length of the transfer
    resp,         \* response to the last chunk or poll, len = -1 for None
    waitPolls,    \* query_block polls of the flow-control wait in progress
    pollResp,     \* resp of _wait_buffer: the response to its last poll
    nStop,        \* stop_play packets sent
    lastCmd,      \* command of the last LCD packet sent, 0 before the first
    cancelled,    \* KeyboardInterrupt was raised
    pret,         \* "none", "True", "False", "raised"
    \* ---- display commands (SpecDisplay) ----
    dop,          \* the method called: "prepare_display", "set_brightness",
                  \* "set_rotation", "set_framerate"; "none" when none is
    darg,         \* its integer argument (level, rot, fps)
    clock,        \* datetime.datetime.now() as sync_clock reads it
    pngLens,      \* lengths of the two PNG files PIL writes in clear_layers
    dpc,          \* position in the method
    out,          \* transfers handed to _send_and_read: command, argument
                  \* region, image carried, length of the transfer
    dret,         \* "none", "resp", "None", "raised"
    \* ---- the LED ring (SpecLed) ----
    ledOp,        \* the method called: "set_leds", "set_all", "off"
    ledFrame,     \* leds_rgb of set_leds
    ledColour,    \* (r, g, b) of set_all
    group,        \* the loop variable of set_leds
    lpc,          \* position in the method
    ledOut,       \* the buffers handed to dev.write(0x01, ...)
    ledReads,     \* reads of endpoint 0x81
    \* ---- the ambilight worker (SpecAmbi) ----
    frame,        \* self.frame: the image object update_frame stored last, as
                  \* [id, addr]: the number of the update_frame call that
                  \* handed it and the identity of the object; NoFrame for None
    run_frame,    \* the local frame of run
    last_frame,   \* the local last_frame of run
    lock,         \* self._lock: "free", or the method inside its with block:
                  \* "run", "update_frame"
    upd_img,      \* the img argument of the update_frame call in progress
    upc,          \* position of update_frame: "idle", "wait" (at the with
                  \* statement), "store" (inside it)
    running,      \* self.running
    error_count,  \* self._error_count
    logged,       \* "[ambilight] LED error" lines printed
    apc,          \* position of run: "loop", "lock" (at the with statement),
                  \* "read" (inside it), "push", "sleep", "exit"; "off"
                  \* before start()
    written,      \* frames update_frame has stored so far
    latestAtRead, \* update_frame calls made when run last read self.frame
    everRead,     \* the frames run has read from self.frame
    processed,    \* the frames run has sampled and pushed, in order, each
                  \* with the frames stored when it was read and whether
                  \* set_leds returned
    ambiPackets,  \* LED packets written by run
    \* ---- edge sampling (SpecSample) ----
    img_w,        \* img.size: w
    img_h,        \* img.size: h
    img_colour,   \* the colour of every pixel of img
    num_leds,     \* the num_leds argument
    led_i,        \* the loop variable i
    window,       \* the box (x0, y0, x1, y1) of the last crop
    colors,       \* the list being built
    epc,          \* position of sample_edge_colors: "off", "loop", "done"
    \* ---- playback with ambilight (SpecPlay) ----
    own_ambi,     \* play_h264_with_ambilight made the AmbilightThread itself
    amb_loop,     \* its loop argument
    ffmpeg,       \* "ok", or "missing": Popen(['ffmpeg', ...]) raises
    decoders,     \* the decoder processes spawned, in order: "running",
                  \* "termed" (SIGTERM sent, still there), "gone"
    state_decoder, \* state['decoder']: its number in decoders, 0 before line 872
    dec,          \* the local dec of decode_loop
    read_data,    \* what dec.stdout.read gave: "none", "full", "short", "empty"
    fullReads,    \* reads that gave a full frame
    ypc,          \* position of the main thread in play_h264_with_ambilight
                  \* (y_...) and in the finally blocks of main (m_...)
    rpc,          \* position of decode_loop, "off" before the thread starts
    streamed,     \* lcd.play_h264 was called and came to its end
    yret,         \* "none", "returned", "raised": how the function ended
    offs,         \* led.off() calls made
    packetsAtOff, \* LED packets the worker had written when off() was last called
    ledOpen,      \* the LED handle is open (led.close() not called)
    ambi_exc,     \* the exception of the ambilight side that reached the
                  \* caller of play_h264_with_ambilight: "none", "popen", "led_off"
    \* ---- the LED handle at shutdown (SpecShutdown) ----
    wire,         \* the packets written to the LED ring, in order, each with
                  \* the thread and the call that wrote it and its group
    set_group,    \* group of the worker's set_leds loop, line 593
    off_group,    \* group of the set_leds loop of the main thread's off()
    zpc,          \* position of the main thread: "idle", "play", "off",
                  \* "main_off", "close", "exit"
    led_dev       \* LEDDevice.dev: "open", or "none" after close()

codecVars == <<cmd, data_at_8, payload, kind, elapsed, buf, packet, sent, cstep, ncalls>>

busVars == <<bus, wakeAccepted, hidKd, lcdKd>>

wakeVars == <<wpc, polls, pollHit, wakeWrote, wakeRet, hidClaimed, hidLog>>

mainVars == <<command, mpc, connProbes, firstProbe, hidProbe, connRet, lcdClaimed,
              lcdWrites, runs>>

mainLedVars == <<use_ambilight, ledBus, ledClaimed>>

connVars == <<busVars, wakeVars, mainVars, mainLedVars>>

linkVars == <<lcdOnBus, dev, inq, late, drops>>

callVars == <<spc, sendNo, nWrites, nReconnects, firstWriteFailed, reconnected,
              retryFailed, readTimedOut, sret, srespTag>>

sendVars == <<linkVars, callVars>>

\* The transport state apart from self.dev.
sendRest == <<lcdOnBus, inq, late, drops, callVars>>

streamVars == <<fileExists, fileSize, loop, playCmd, playCount, devBlock,
                blockResp, h264_buf_len, buf_len, ppc, pos, chunks, resp, waitPolls, pollResp,
                nStop,
                lastCmd, cancelled, pret>>

displayVars == <<dop, darg, clock, pngLens, dpc, out, dret>>

ledVars == <<ledOp, ledFrame, ledColour, group, lpc, ledOut, ledReads>>

playVars == <<own_ambi, amb_loop, ffmpeg, decoders, state_decoder, dec, read_data, fullReads,
              ypc, rpc, streamed, yret, offs, packetsAtOff, ledOpen, ambi_exc>>

shutVars == <<wire, set_group, off_group, zpc, led_dev>>

sampleVars == <<img_w, img_h, img_colour, num_leds, led_i, window, colors, epc>>

ambiVars == <<frame, run_frame, last_frame, lock, upd_img, upc, running, error_count, logged,
              apc, written, latestAtRead, everRead, processed, ambiPackets>>

vars == <<codecVars, connVars, sendVars, streamVars, displayVars, ledVars, ambiVars, sampleVars, playVars, shutVars>>

\* What the actions of one part leave alone.
notCodec == <<connVars, sendVars, streamVars, displayVars, ledVars, ambiVars, sampleVars, playVars, shutVars>>
notConn == <<codecVars, sendVars, streamVars, displayVars, ledVars, ambiVars, sampleVars, playVars, shutVars>>
notSend == <<codecVars, connVars, streamVars, displayVars, ledVars, ambiVars, sampleVars, playVars, shutVars>>
notStream == <<codecVars, connVars, sendRest, displayVars, ledVars, ambiVars, sampleVars, playVars, shutVars>>
notDisplay == <<codecVars, connVars, sendRest, streamVars, ledVars, ambiVars, sampleVars, playVars, shutVars>>
notLed == <<codecVars, connVars, sendVars, streamVars, displayVars, ambiVars, sampleVars, playVars, shutVars>>
notAmbi == <<codecVars, connVars, sendVars, streamVars, displayVars, ledVars, sampleVars, playVars, shutVars>>
notSample == <<codecVars, connVars, sendVars, streamVars, displayVars, ledVars, ambiVars, playVars, shutVars>>
notPlay == <<codecVars, connVars, sendVars, streamVars, displayVars, ledVars, ambiVars, sampleVars, shutVars>>
\* The state the shutdown of the LED side does not touch: its threads
\* change shutVars and ambiVars.
notShutAmbi == <<codecVars, connVars, sendVars, streamVars, displayVars, ledVars, sampleVars, playVars>>
\* The state playback with ambilight does not touch: its threads change
\* playVars and ambiVars.
notPlayAmbi == <<codecVars, connVars, sendVars, streamVars, displayVars, ledVars, sampleVars, shutVars>>

(***************************************************************************)
(* Bounds of the model.                                                    *)
(***************************************************************************)
MaxCalls == 2
MaxRuns == 2
MaxSends == 3
MaxDrops == 2

(***************************************************************************)
(* Each specification leaves the state of the other parts at rest.         *)
(***************************************************************************)
IdleCodec ==
    /\ cmd = 0 /\ data_at_8 = <<>> /\ payload = <<>> /\ kind = "cmd"
    /\ elapsed = [hi |-> 0, lo |-> 0]
    /\ buf = <<>> /\ packet = <<>> /\ sent = <<>> /\ cstep = "idle" /\ ncalls = 0

IdleConn ==
    /\ bus = "monitor" /\ wakeAccepted = FALSE /\ hidKd = FALSE /\ lcdKd = FALSE
    /\ command = "lcd" /\ mpc = "m_exit" /\ wpc = "off"
    /\ polls = 0 /\ pollHit = FALSE /\ wakeWrote = "no" /\ wakeRet = "none"
    /\ connProbes = 0 /\ firstProbe = "none" /\ hidProbe = "none" /\ connRet = "none"
    /\ lcdClaimed = FALSE /\ hidClaimed = FALSE /\ hidLog = <<>> /\ lcdWrites = 0
    /\ runs = 0
    /\ use_ambilight = FALSE /\ ledBus = "absent" /\ ledClaimed = FALSE

IdleSend ==
    /\ lcdOnBus = TRUE /\ dev = "none" /\ inq = <<>> /\ late = {} /\ drops = 0
    /\ spc = "off" /\ sendNo = 0 /\ nWrites = 0 /\ nReconnects = 0
    /\ firstWriteFailed = FALSE /\ reconnected = "none" /\ retryFailed = FALSE
    /\ readTimedOut = FALSE /\ sret = "none" /\ srespTag = 0

IdlePlay ==
    /\ own_ambi = FALSE /\ amb_loop = FALSE /\ ffmpeg = "ok" /\ decoders = <<>>
    /\ state_decoder = 0 /\ dec = 0 /\ read_data = "none" /\ fullReads = 0
    /\ ypc = "off" /\ rpc = "off" /\ streamed = FALSE /\ yret = "none"
    /\ offs = 0 /\ packetsAtOff = 0 /\ ledOpen = FALSE /\ ambi_exc = "none"

IdleShut ==
    /\ wire = <<>> /\ set_group = 0 /\ off_group = 0 /\ zpc = "idle" /\ led_dev = "none"

IdleSample ==
    /\ img_w = 0 /\ img_h = 0 /\ img_colour = <<0, 0, 0>> /\ num_leds = 0
    /\ led_i = 0 /\ window = <<0, 0, 0, 0>> /\ colors = <<>> /\ epc = "off"

\* None as a frame reference
NoFrame == [id |-> 0, addr |-> 0]

IdleAmbi ==
    /\ frame = NoFrame /\ run_frame = NoFrame /\ last_frame = NoFrame
    /\ lock = "free" /\ upd_img = NoFrame /\ upc = "idle"
    /\ running = FALSE /\ error_count = 0 /\ logged = 0 /\ apc = "off"
    /\ written = 0 /\ latestAtRead = 0 /\ everRead = {} /\ processed = <<>>
    /\ ambiPackets = 0

IdleLed ==
    /\ ledOp = "none" /\ ledFrame = <<>> /\ ledColour = <<0, 0, 0>>
    /\ group = 0 /\ lpc = "off" /\ ledOut = <<>> /\ ledReads = 0

IdleDisplay ==
    /\ dop = "none" /\ darg = 0
    /\ clock = [year |-> 1970, month |-> 1, day |-> 1, hour |-> 0, minute |-> 0, second |-> 0]
    /\ pngLens = <<0, 0>>
    /\ dpc = "off" /\ out = <<>> /\ dret = "none"

IdleStream ==
    /\ fileExists = FALSE /\ fileSize = 0 /\ loop = FALSE
    /\ playCmd = CMD_START_PLAY /\ playCount = 1
    /\ devBlock = [len |-> 0, at8 |-> <<0, 0, 0, 0>>]
    /\ blockResp = [len |-> -1, at8 |-> <<0, 0, 0, 0>>]
    /\ h264_buf_len = DEFAULT_BUF_LEN /\ buf_len = 0
    /\ ppc = "off" /\ pos = 0 /\ chunks = <<>> /\ resp = [len |-> -1, d |-> 0] /\ waitPolls = 0
    /\ pollResp = [len |-> -1, d |-> 0]
    /\ nStop = 0 /\ lastCmd = 0 /\ cancelled = FALSE /\ pret = "none"

(***************************************************************************)
(* _ts, lines 85-87.  The elapsed milliseconds are held as two 16-bit      *)
(* halves (value = hi * 65536 + lo, hi unbounded) because the model        *)
(* checker's integers are 32-bit signed; `& 0xFFFFFFFF` keeps the low      *)
(* 32 bits, that is hi mod 2^16 and lo.                                    *)
(***************************************************************************)
Ts(e) == [hi |-> e.hi % 65536, lo |-> e.lo]

\* struct.pack_into('<I', buf, 4, v): the four bytes of v, least significant first
PackLE32(v) == <<v.lo % 256, v.lo \div 256, v.hi % 256, v.hi \div 256>>

\* One millisecond later.
TickMs(e) == IF e.lo = 65535 THEN [hi |-> e.hi + 1, lo |-> 0]
             ELSE [hi |-> e.hi, lo |-> e.lo + 1]

(***************************************************************************)
(* The plaintext of _make_header, lines 103-111.                           *)
(***************************************************************************)
PlainBE(c, args, e) ==
    LET ts == PackLE32(Ts(e))
    IN  [i \in 1..PlainLen |->
            IF i = 1 THEN c % 256
            ELSE IF i = 3 THEN MarkerA
            ELSE IF i = 4 THEN MarkerB
            ELSE IF i \in 5..8 THEN ts[9 - i]
            ELSE IF i > ArgOffset /\ i - ArgOffset <= Len(args) THEN args[i - ArgOffset]
            ELSE 0]

Plain(c, args, e) ==
    LET ts == PackLE32(Ts(e))
    IN  [i \in 1..PlainLen |->
            IF i = 1 THEN c % 256
            ELSE IF i = 3 THEN MarkerA
            ELSE IF i = 4 THEN MarkerB
            ELSE IF i \in 5..8 THEN ts[i - 4]
            ELSE IF i > ArgOffset /\ i - ArgOffset <= Len(args) THEN args[i - ArgOffset]
            ELSE 0]

(***************************************************************************)
(* _des_encrypt, lines 90-94.  Crypto.Cipher.DES is a library: its block   *)
(* function is modelled by what the driver relies on, a keyed permutation  *)
(* of 8-byte blocks (DesBlock, with inverse DesBlockInv); the CBC chaining *)
(* with IV = key and the PKCS#7 padding are as in the source.              *)
(***************************************************************************)
RECURSIVE XorByte(_, _, _)
XorByte(a, b, n) ==
    IF n = 0 THEN 0
    ELSE (((a % 2) + (b % 2)) % 2) + 2 * XorByte(a \div 2, b \div 2, n - 1)

XorBlock(x, y) == [i \in 1..BlockLen |-> XorByte(x[i], y[i], 8)]

DesBlock(key, blk) ==
    [i \in 1..BlockLen |-> (5 * blk[(i % BlockLen) + 1] + key[i] + i) % 256]

DesBlockInv(key, blk) ==
    [j \in 1..BlockLen |->
        LET i == IF j = 1 THEN BlockLen ELSE j - 1
        IN  (205 * ((blk[i] - key[i] - i) % 256)) % 256]

Pkcs7(data) ==
    LET pad_len == BlockLen - (Len(data) % BlockLen)
    IN  data \o [i \in 1..pad_len |-> pad_len]

RECURSIVE CbcEncrypt(_, _, _, _)
CbcEncrypt(key, prev, data, k) ==
    IF BlockLen * k >= Len(data) THEN <<>>
    ELSE LET c == DesBlock(key, XorBlock(SubSeq(data, BlockLen * k + 1, BlockLen * k + BlockLen), prev))
         IN  c \o CbcEncrypt(key, c, data, k + 1)

RECURSIVE CbcDecrypt(_, _, _, _)
CbcDecrypt(key, prev, data, k) ==
    IF BlockLen * k >= Len(data) THEN <<>>
    ELSE LET c == SubSeq(data, BlockLen * k + 1, BlockLen * k + BlockLen)
         IN  XorBlock(DesBlockInv(key, c), prev) \o CbcDecrypt(key, c, data, k + 1)

DesEncrypt(data) == CbcEncrypt(DES_KEY, DES_KEY, Pkcs7(data), 0)

\* What the device computes from the ciphertext it received.
DesDecrypt(data) == CbcDecrypt(DES_KEY, DES_KEY, data, 0)

(***************************************************************************)
(* _make_header, lines 112-117.  packet[:len(encrypted)] = encrypted[:512] *)
(* is Python's slice assignment: the slice [0, min(stop, len)) of the      *)
(* target is replaced by the value.                                        *)
(***************************************************************************)
SliceAssignFrom0(target, stop, value) ==
    value \o SubSeq(target, Min(stop, Len(target)) + 1, Len(target))

\* A frame whose trailer takes the place of the last two ciphertext bytes.
FrameOverCiphertext(plain) ==
    LET encrypted == DesEncrypt(plain)
        packet0   == SliceAssignFrom0(Zeros(PacketLen), Len(encrypted),
                                      SubSeq(encrypted, 1, Min(PacketLen, Len(encrypted))))
    IN  [packet0 EXCEPT ![Len(encrypted) - 1] = TrailerA, ![Len(encrypted)] = TrailerB]

Frame(plain) ==
    LET encrypted == DesEncrypt(plain)
        packet0   == SliceAssignFrom0(Zeros(PacketLen), Len(encrypted),
                                      SubSeq(encrypted, 1, Min(PacketLen, Len(encrypted))))
    IN  [packet0 EXCEPT ![PacketLen - 1] = TrailerA, ![PacketLen] = TrailerB]

MakeHeaderNoTrailer(c, args, e) ==
    LET encrypted == DesEncrypt(Plain(c, args, e))
    IN  SliceAssignFrom0(Zeros(PacketLen), Len(encrypted),
                         SubSeq(encrypted, 1, Min(PacketLen, Len(encrypted))))

MakeHeader(c, args, e) == Frame(Plain(c, args, e))

(***************************************************************************)
(* SpecCodec: one call of send_cmd or send_with_payload after another, the *)
(* clock advancing between them.                                           *)
(***************************************************************************)
\* Argument regions: none, one byte, the six bytes of a streaming chunk,
\* the longest that fits (492), one more, and one longer than the plaintext.
CodecArgs ==
    { <<>>, <<100>>, <<0, 3, 24, 0, 0, 1>>,
      [i \in 1..492 |-> 255], [i \in 1..493 |-> (i % 255) + 1], [i \in 1..505 |-> 7] }

CodecCmds == {CMD_GET_H264_BLOCK, CMD_START_PLAY, 255}

CodecPayloads == { <<>>, <<137, 80, 78, 71>> }

\* 0 ms, the last millisecond before the 32-bit counter wraps (2^32 - 1),
\* and a time after the wrap (2^32 + 2^24 + 513).
CodecTimes == { [hi |-> 0, lo |-> 0], [hi |-> 65535, lo |-> 65535],
                [hi |-> 65536 + 256, lo |-> 513] }

InitCodec ==
    /\ cmd \in CodecCmds
    /\ data_at_8 \in CodecArgs
    /\ kind \in {"cmd", "payload"}
    /\ payload \in (IF kind = "cmd" THEN {<<>>} ELSE CodecPayloads)
    /\ elapsed \in CodecTimes
    /\ buf = <<>>
    /\ packet = <<>>
    /\ sent = <<>>
    /\ cstep = "idle"
    /\ ncalls = 0

\* _make_header(cmd, data_at_8), lines 97-117
MakeHeaderCall ==
    /\ cstep = "idle"
    /\ ncalls < MaxCalls
    /\ buf' = Plain(cmd, data_at_8, elapsed)
    /\ packet' = MakeHeader(cmd, data_at_8, elapsed)
    /\ cstep' = "header"
    /\ ncalls' = ncalls + 1
    /\ UNCHANGED <<cmd, data_at_8, payload, kind, elapsed, sent>>
    /\ UNCHANGED notCodec

\* send_cmd, lines 334-336: the frame alone goes to _send_and_read
SendCmd ==
    /\ cstep = "header"
    /\ kind = "cmd"
    /\ sent' = packet
    /\ cstep' = "sent"
    /\ UNCHANGED <<cmd, data_at_8, payload, kind, elapsed, buf, packet, ncalls>>
    /\ UNCHANGED notCodec

\* send_with_payload, lines 338-347: buf[0:512] = header; buf[512:] = payload
SendWithPayload ==
    /\ cstep = "header"
    /\ kind = "payload"
    /\ sent' = packet \o payload
    /\ cstep' = "sent"
    /\ UNCHANGED <<cmd, data_at_8, payload, kind, elapsed, buf, packet, ncalls>>
    /\ UNCHANGED notCodec

\* The call returns; the next one is made a millisecond later.
CodecReturn ==
    /\ cstep = "sent"
    /\ elapsed' = TickMs(elapsed)
    /\ cstep' = "idle"
    /\ UNCHANGED <<cmd, data_at_8, payload, kind, buf, packet, sent, ncalls>>
    /\ UNCHANGED notCodec

NextCodec == MakeHeaderCall \/ SendCmd \/ SendWithPayload \/ CodecReturn

StartCodec == InitCodec /\ IdleConn /\ IdleSend /\ IdleStream /\ IdleDisplay /\ IdleLed /\ IdleAmbi /\ IdleSample /\ IdlePlay /\ IdleShut

SpecCodec == StartCodec /\ [][NextCodec]_vars


(***************************************************************************)
(* Claims about command framing.                                           *)
(***************************************************************************)
\* C1: whatever the command id and the argument bytes, _make_header returns
\* exactly 512 bytes whose bytes 510 and 511 are 0xA1, 0x1A; what send_cmd
\* hands to the transport is that frame, and what send_with_payload hands to
\* it is that frame followed by the N payload bytes, as one transfer.
C1_FrameIs512WithTrailer ==
    /\ cstep \in {"header", "sent"} =>
          /\ Len(packet) = 512
          /\ packet[511] = 161
          /\ packet[512] = 26
    /\ cstep = "sent" =>
          /\ Len(sent) = 512 + Len(payload)
          /\ SubSeq(sent, 1, 512) = packet
          /\ SubSeq(sent, 513, Len(sent)) = payload
          /\ sent[511] = 161 /\ sent[512] = 26
          /\ kind = "cmd" => Len(sent) = 512

C1_Witness ==
    /\ cstep = "sent"
    /\ kind = "payload"
    /\ Len(payload) = 4
    /\ Len(data_at_8) = 492
    /\ Len(sent) = 516

\* C2: the plaintext _make_header encrypts is 500 bytes: cmd, 0, 0x1A, 0x6D,
\* the elapsed milliseconds mod 2^32 least significant byte first, the
\* arguments from offset 8 (the first 492 of them), zeros to the end; this
\* also after the millisecond counter has wrapped, and the 504 ciphertext
\* bytes of the frame decrypt back to that plaintext and its padding.
C2_PlaintextLayout ==
    cstep \in {"header", "sent"} =>
        /\ Len(buf) = 500
        /\ \A i \in 1..500 : buf[i] \in 0..255
        /\ buf[1] = cmd
        /\ buf[2] = 0
        /\ buf[3] = 26
        /\ buf[4] = 109
        /\ buf[5] + 256 * buf[6] = elapsed.lo
        /\ buf[7] + 256 * buf[8] = elapsed.hi % 65536
        /\ \A i \in 1..Len(data_at_8) : i <= 492 => buf[8 + i] = data_at_8[i]
        /\ \A i \in (9 + Len(data_at_8))..500 : buf[i] = 0
        /\ DesDecrypt(SubSeq(packet, 1, 504)) = buf \o <<4, 4, 4, 4>>

C2_Witness ==
    /\ cstep = "header"
    /\ ncalls = 2
    /\ elapsed = [hi |-> 65536, lo |-> 0]
    /\ Len(data_at_8) = 492
    /\ buf[5] = 0 /\ buf[6] = 0 /\ buf[7] = 0 /\ buf[8] = 0

\* C32 as stated: the trailer falls on ciphertext, so the bytes handed to
\* the transport hold the ciphertext without its last two bytes.
C32_LastTwoCipherBytesLost ==
    cstep = "sent" =>
        LET encrypted == DesEncrypt(buf)
            n == Len(encrypted)
        IN  /\ PacketLen - 1 <= n
            /\ SubSeq(sent, 1, n - 2) = SubSeq(encrypted, 1, n - 2)
            /\ SubSeq(sent, n - 1, n) # SubSeq(encrypted, n - 1, n)

\* C32, amended: the ciphertext of the 500-byte plaintext is 504 bytes and
\* all of it is handed to the transport, at bytes 0..503 of the frame; bytes
\* 504..509 are zero and the trailer at 510..511 takes the place of zero
\* padding, never of ciphertext.
C32_CiphertextSentWhole ==
    cstep = "sent" =>
        LET encrypted == DesEncrypt(buf)
        IN  /\ Len(encrypted) = 504
            /\ SubSeq(sent, 1, 504) = encrypted
            /\ \A i \in 505..510 : sent[i] = 0
            /\ sent[511] = TrailerA /\ sent[512] = TrailerB

\* A frame with the longest argument region has been handed to the
\* transport, and the last two ciphertext bytes in it are not zero.
C32_Witness ==
    /\ cstep = "sent"
    /\ Len(data_at_8) = 493
    /\ sent[503] # 0 /\ sent[504] # 0
    /\ SubSeq(sent, 503, 504) = SubSeq(DesEncrypt(buf), 503, 504)


(***************************************************************************)
(* SpecConnect: runs of main that reach wake_from_desktop or               *)
(* LCDDevice.connect, and the device's two modes.                          *)
(*                                                                         *)
(* The device is on the bus as the standby HID or as the monitor-mode LCD, *)
(* never both.  A standby device that has received SetMonitorMode leaves   *)
(* the bus at a moment of its own choosing and comes back as the LCD, or   *)
(* stays away.  A USB call on a device that has left the bus raises        *)
(* USBError; the source catches it where it has a try/except.              *)
(***************************************************************************)
WAKE_POLLS == 20
HID_INTERFACE == 1
HID_EP_OUT == 2

\* _MONITOR_MODE_CMD, line 47: ASCII "5f3759df"
MONITOR_MODE_CMD == <<53, 102, 51, 55, 53, 57, 100, 102>>

\* pkt = bytearray(512); pkt[:len(_MONITOR_MODE_CMD)] = _MONITOR_MODE_CMD, lines 212-213

WakePacket == SliceAssignFrom0(Zeros(PacketLen), Len(MONITOR_MODE_CMD), MONITOR_MODE_CMD)

HidPresent == bus = "standby"
LcdPresent == bus = "monitor"

ResetRun ==
    /\ wpc' = "off" /\ polls' = 0 /\ pollHit' = FALSE /\ wakeWrote' = "no"
    /\ wakeRet' = "none" /\ connProbes' = 0 /\ firstProbe' = "none"
    /\ hidProbe' = "none" /\ connRet' = "none" /\ lcdClaimed' = FALSE
    /\ hidClaimed' = FALSE /\ hidLog' = <<>> /\ lcdWrites' = 0

InitConnect ==
    /\ bus \in {"standby", "switching", "monitor", "absent"}
    /\ wakeAccepted = FALSE
    /\ hidKd \in (IF bus = "standby" THEN BOOLEAN ELSE {FALSE})
    /\ lcdKd \in (IF bus = "monitor" THEN BOOLEAN ELSE {FALSE})
    /\ command \in {"wake", "lcd"}
    /\ mpc = (IF command = "wake" THEN "k_find" ELSE "c_find1")
    /\ wpc = "off" /\ polls = 0 /\ pollHit = FALSE /\ wakeWrote = "no"
    /\ wakeRet = "none" /\ connProbes = 0 /\ firstProbe = "none"
    /\ hidProbe = "none" /\ connRet = "none" /\ lcdClaimed = FALSE
    /\ hidClaimed = FALSE /\ hidLog = <<>> /\ lcdWrites = 0
    /\ runs = 1
    /\ use_ambilight \in (IF command = "lcd" THEN BOOLEAN ELSE {FALSE})
    /\ ledBus \in (IF use_ambilight THEN {"absent", "free", "busy"} ELSE {"free"})
    /\ ledClaimed = FALSE

\* ---- the device ----

\* The standby device acts on SetMonitorMode: the HID leaves the bus.
DeviceLeavesStandby ==
    /\ bus = "standby"
    /\ wakeAccepted
    /\ bus' = "switching"
    /\ hidKd' = FALSE
    /\ UNCHANGED <<wakeAccepted, lcdKd, wakeVars, mainVars>>
    /\ UNCHANGED mainLedVars
    /\ UNCHANGED notConn

\* The TI MCU enumerates; the kernel may bind a driver to it.
DeviceEnumerates ==
    /\ bus = "switching"
    /\ bus' = "monitor"
    /\ wakeAccepted' = FALSE
    /\ lcdKd' \in BOOLEAN
    /\ UNCHANGED <<hidKd, wakeVars, mainVars>>
    /\ UNCHANGED mainLedVars
    /\ UNCHANGED notConn

\* ---- wake_from_desktop, lines 190-225 ----

\* The same with the early return left out.
WakeFindNoCheck ==
    /\ wpc = "w_find"
    /\ wpc' = "w_kd"
    /\ UNCHANGED <<busVars, polls, pollHit, wakeWrote, wakeRet, hidClaimed, hidLog, mainVars>>
    /\ UNCHANGED mainLedVars
    /\ UNCHANGED notConn

\* lines 199-201
WakeFind ==
    /\ wpc = "w_find"
    /\ IF HidPresent
       THEN wpc' = "w_kd" /\ wakeRet' = wakeRet
       ELSE wpc' = "w_done" /\ wakeRet' = "false"
    /\ UNCHANGED <<busVars, polls, pollHit, wakeWrote, hidClaimed, hidLog, mainVars>>
    /\ UNCHANGED mainLedVars
    /\ UNCHANGED notConn

\* lines 202-210: detach the kernel driver and set the configuration,
\* USBError swallowed
WakeDetach ==
    /\ wpc = "w_kd"
    /\ hidKd' = (IF HidPresent THEN FALSE ELSE hidKd)
    /\ wpc' = "w_claim"
    /\ UNCHANGED <<bus, wakeAccepted, lcdKd, polls, pollHit, wakeWrote, wakeRet,
                   hidClaimed, hidLog, mainVars>>
    /\ UNCHANGED mainLedVars
    /\ UNCHANGED notConn

\* line 211: usb.util.claim_interface(hid, 1), not guarded
WakeClaim ==
    /\ wpc = "w_claim"
    /\ IF HidPresent
       THEN /\ hidClaimed' = TRUE
            /\ hidLog' = Append(hidLog, [op |-> "claim", intf |-> HID_INTERFACE])
            /\ wpc' = "w_write"
            /\ wakeRet' = wakeRet
       ELSE /\ wpc' = "w_done"
            /\ wakeRet' = "raised"
            /\ UNCHANGED <<hidClaimed, hidLog>>
    /\ UNCHANGED <<busVars, polls, pollHit, wakeWrote, mainVars>>
    /\ UNCHANGED mainLedVars
    /\ UNCHANGED notConn

\* lines 212-218: the write succeeds, or raises USBError, which is swallowed
WakeWrite ==
    /\ wpc = "w_write"
    /\ \E ok \in (IF HidPresent THEN BOOLEAN ELSE {FALSE}) :
          /\ wakeWrote' = (IF ok THEN "ok" ELSE "failed")
          /\ wakeAccepted' = (wakeAccepted \/ ok)
          /\ hidLog' = Append(hidLog, [op |-> "write", ep |-> HID_EP_OUT,
                                       data |-> WakePacket, ok |-> ok])
    /\ wpc' = "w_release"
    /\ UNCHANGED <<bus, hidKd, lcdKd, polls, pollHit, wakeRet, hidClaimed, mainVars>>
    /\ UNCHANGED mainLedVars
    /\ UNCHANGED notConn

\* line 219: usb.util.release_interface(hid, 1), not guarded
WakeRelease ==
    /\ wpc = "w_release"
    /\ IF HidPresent
       THEN /\ hidClaimed' = FALSE
            /\ hidLog' = Append(hidLog, [op |-> "release", intf |-> HID_INTERFACE])
            /\ wpc' = "w_poll"
            /\ wakeRet' = wakeRet
       ELSE /\ wpc' = "w_done"
            /\ wakeRet' = "raised"
            /\ UNCHANGED <<hidClaimed, hidLog>>
    /\ UNCHANGED <<busVars, polls, pollHit, wakeWrote, mainVars>>
    /\ UNCHANGED mainLedVars
    /\ UNCHANGED notConn

\* The polling loop with the return on a hit left out.
WakePollNoReturn ==
    /\ wpc = "w_poll"
    /\ polls' = polls + 1
    /\ pollHit' = (pollHit \/ LcdPresent)
    /\ IF polls + 1 >= WAKE_POLLS
       THEN wpc' = "w_done" /\ wakeRet' = (IF pollHit' THEN "true" ELSE "false")
       ELSE wpc' = "w_poll" /\ wakeRet' = wakeRet
    /\ UNCHANGED <<busVars, wakeWrote, hidClaimed, hidLog, mainVars>>
    /\ UNCHANGED mainLedVars
    /\ UNCHANGED notConn

\* lines 221-225: one iteration of for _ in range(20): sleep; find
WakePoll ==
    /\ wpc = "w_poll"
    /\ polls' = polls + 1
    /\ IF LcdPresent
       THEN pollHit' = TRUE /\ wpc' = "w_done" /\ wakeRet' = "true"
       ELSE /\ pollHit' = pollHit
            /\ IF polls + 1 >= WAKE_POLLS
               THEN wpc' = "w_done" /\ wakeRet' = "false"
               ELSE wpc' = "w_poll" /\ wakeRet' = wakeRet
    /\ UNCHANGED <<busVars, wakeWrote, hidClaimed, hidLog, mainVars>>
    /\ UNCHANGED mainLedVars
    /\ UNCHANGED notConn

\* ---- main, command wake, lines 1037-1044 ----

MainWakeProbe ==
    /\ mpc = "k_find"
    /\ IF LcdPresent
       THEN mpc' = "m_exit" /\ wpc' = wpc
       ELSE mpc' = "k_wake" /\ wpc' = "w_find"
    /\ UNCHANGED <<busVars, polls, pollHit, wakeWrote, wakeRet, hidClaimed, hidLog,
                   command, connProbes, firstProbe, hidProbe, connRet, lcdClaimed,
                   lcdWrites, runs>>
    /\ UNCHANGED mainLedVars
    /\ UNCHANGED notConn

MainWakeReturn ==
    /\ mpc = "k_wake"
    /\ wpc = "w_done"
    /\ mpc' = "m_exit"
    /\ wpc' = "off"
    /\ UNCHANGED <<busVars, polls, pollHit, wakeWrote, wakeRet, hidClaimed, hidLog,
                   command, connProbes, firstProbe, hidProbe, connRet, lcdClaimed,
                   lcdWrites, runs>>
    /\ UNCHANGED mainLedVars
    /\ UNCHANGED notConn

\* ---- LCDDevice.connect, lines 241-262 ----

\* line 243
ConnectFind ==
    /\ mpc = "c_find1"
    /\ connProbes' = connProbes + 1
    /\ firstProbe' = (IF LcdPresent THEN "found" ELSE "absent")
    /\ mpc' = (IF LcdPresent THEN "c_claim" ELSE "c_findhid")
    /\ UNCHANGED <<busVars, wakeVars, command, hidProbe, connRet, lcdClaimed,
                   lcdWrites, runs>>
    /\ UNCHANGED mainLedVars
    /\ UNCHANGED notConn

\* lines 245-247: the HID is looked up, and wake_from_desktop called if it is there
ConnectFindHid ==
    /\ mpc = "c_findhid"
    /\ IF HidPresent
       THEN hidProbe' = "present" /\ mpc' = "c_wake" /\ wpc' = "w_find"
            /\ connRet' = connRet
       ELSE hidProbe' = "absent" /\ mpc' = "m_fail" /\ wpc' = wpc
            /\ connRet' = "false"
    /\ UNCHANGED <<busVars, polls, pollHit, wakeWrote, wakeRet, hidClaimed, hidLog,
                   command, connProbes, firstProbe, lcdClaimed, lcdWrites, runs>>
    /\ UNCHANGED mainLedVars
    /\ UNCHANGED notConn

\* lines 247-250: wake_from_desktop has returned, or raised
ConnectWakeReturn ==
    /\ mpc = "c_wake"
    /\ wpc = "w_done"
    /\ wpc' = "off"
    /\ CASE wakeRet = "true"   -> mpc' = "c_find2" /\ connRet' = connRet
         [] wakeRet = "raised" -> mpc' = "m_exit" /\ connRet' = "raised"
         [] OTHER              -> mpc' = "m_fail" /\ connRet' = "false"
    /\ UNCHANGED <<busVars, polls, pollHit, wakeWrote, wakeRet, hidClaimed, hidLog,
                   command, connProbes, firstProbe, hidProbe, lcdClaimed, lcdWrites,
                   runs>>
    /\ UNCHANGED mainLedVars
    /\ UNCHANGED notConn

\* lines 248-250
ConnectFindAgain ==
    /\ mpc = "c_find2"
    /\ connProbes' = connProbes + 1
    /\ IF LcdPresent
       THEN mpc' = "c_claim" /\ connRet' = connRet
       ELSE mpc' = "m_fail" /\ connRet' = "false"
    /\ UNCHANGED <<busVars, wakeVars, command, firstProbe, hidProbe, lcdClaimed,
                   lcdWrites, runs>>
    /\ UNCHANGED mainLedVars
    /\ UNCHANGED notConn

\* lines 251-262: detach the kernel driver if one is bound, set the
\* configuration, claim interface 0, return True
ConnectClaim ==
    /\ mpc = "c_claim"
    /\ lcdKd' = FALSE
    /\ lcdClaimed' = TRUE
    /\ connRet' = "true"
    /\ mpc' = "m_led"
    /\ UNCHANGED <<bus, wakeAccepted, hidKd, wakeVars, command, connProbes,
                   firstProbe, hidProbe, lcdWrites, runs>>
    /\ UNCHANGED mainLedVars
    /\ UNCHANGED notConn

\* ---- main after connect, lines 1062-1180 ----

\* lines 1063-1068: connect returned False, sys.exit(1)
MainConnectFailed ==
    /\ mpc = "m_fail"
    /\ mpc' = "m_exit"
    /\ UNCHANGED <<busVars, wakeVars, command, connProbes, firstProbe, hidProbe,
                   connRet, lcdClaimed, lcdWrites, runs>>
    /\ UNCHANGED mainLedVars
    /\ UNCHANGED notConn

\* The LED controller leaves the bus while the program holds it.
LedLeaves ==
    /\ ledClaimed /\ ledBus = "free"
    /\ ledBus' = "absent"
    /\ UNCHANGED <<use_ambilight, ledClaimed>>
    /\ UNCHANGED <<busVars, wakeVars, mainVars>>
    /\ UNCHANGED notConn

\* lines 1070-1079 and 550-558: led.connect() when ambilight was asked for;
\* detach_kernel_driver, set_configuration and claim_interface are not
\* guarded and the call is made outside the try of line 1081
MainLedConnect ==
    /\ mpc = "m_led"
    /\ CASE ~use_ambilight ->
              /\ mpc' = "m_cmd"
              /\ UNCHANGED <<use_ambilight, ledClaimed>>
         [] use_ambilight /\ ledBus = "absent" ->
              /\ use_ambilight' = FALSE
              /\ mpc' = "m_cmd"
              /\ UNCHANGED ledClaimed
         [] use_ambilight /\ ledBus = "free" ->
              /\ ledClaimed' = TRUE
              /\ mpc' = "m_cmd"
              /\ UNCHANGED use_ambilight
         [] use_ambilight /\ ledBus = "busy" ->
              /\ mpc' = "m_exit"
              /\ UNCHANGED <<use_ambilight, ledClaimed>>
    /\ UNCHANGED ledBus
    /\ UNCHANGED <<busVars, wakeVars, command, connProbes, firstProbe, hidProbe,
                   connRet, lcdClaimed, lcdWrites, runs>>
    /\ UNCHANGED notConn

\* lines 1081-1175: the command writes to the LCD
MainLcdCommand ==
    /\ mpc = "m_cmd"
    /\ lcdWrites' = lcdWrites + 1
    /\ mpc' = "m_close"
    /\ UNCHANGED <<busVars, wakeVars, command, connProbes, firstProbe, hidProbe,
                   connRet, lcdClaimed, runs>>
    /\ UNCHANGED mainLedVars
    /\ UNCHANGED notConn

\* lines 1176-1178 and 264-271: lcd.close(), if led
MainClose ==
    /\ mpc = "m_close"
    /\ lcdClaimed' = FALSE
    /\ mpc' = (IF ledClaimed THEN "m_ledoff" ELSE "m_exit")
    /\ UNCHANGED <<busVars, wakeVars, command, connProbes, firstProbe, hidProbe,
                   connRet, lcdWrites, runs>>
    /\ UNCHANGED mainLedVars
    /\ UNCHANGED notConn

\* line 1179: led.off(); the write of _send, line 571, is not guarded
MainLedOff ==
    /\ mpc = "m_ledoff"
    /\ mpc' = (IF ledBus = "free" THEN "m_ledclose" ELSE "m_exit")
    /\ UNCHANGED <<busVars, wakeVars, command, connProbes, firstProbe, hidProbe,
                   connRet, lcdClaimed, lcdWrites, runs>>
    /\ UNCHANGED mainLedVars
    /\ UNCHANGED notConn

\* line 1180 and 560-566: led.close()
MainLedClose ==
    /\ mpc = "m_ledclose"
    /\ ledClaimed' = FALSE
    /\ mpc' = "m_exit"
    /\ UNCHANGED <<use_ambilight, ledBus>>
    /\ UNCHANGED <<busVars, wakeVars, command, connProbes, firstProbe, hidProbe,
                   connRet, lcdClaimed, lcdWrites, runs>>
    /\ UNCHANGED notConn

\* The process has ended; the program is run again.
MainRunAgain ==
    /\ mpc = "m_exit"
    /\ runs < MaxRuns
    /\ runs' = runs + 1
    /\ command' \in {"wake", "lcd"}
    /\ mpc' = (IF command' = "wake" THEN "k_find" ELSE "c_find1")
    /\ ResetRun
    /\ use_ambilight' \in (IF command' = "lcd" THEN BOOLEAN ELSE {FALSE})
    /\ ledClaimed' = FALSE
    /\ UNCHANGED ledBus
    /\ UNCHANGED busVars
    /\ UNCHANGED notConn

ProgramStep ==
    \/ WakeFind \/ WakeDetach \/ WakeClaim \/ WakeWrite \/ WakeRelease \/ WakePoll
    \/ MainWakeProbe \/ MainWakeReturn
    \/ ConnectFind \/ ConnectFindHid \/ ConnectWakeReturn \/ ConnectFindAgain
    \/ ConnectClaim \/ MainConnectFailed \/ MainLedConnect \/ MainLcdCommand
    \/ MainClose \/ MainLedOff \/ MainLedClose

NextConnect ==
    \/ DeviceLeavesStandby \/ DeviceEnumerates \/ LedLeaves
    \/ ProgramStep
    \/ MainRunAgain

StartConnect == InitConnect /\ IdleCodec /\ IdleSend /\ IdleStream /\ IdleDisplay /\ IdleLed /\ IdleAmbi /\ IdleSample /\ IdlePlay /\ IdleShut

SpecConnect == StartConnect /\ [][NextConnect]_vars

\* The program is scheduled: a step it can take is taken.
SpecConnectFair == SpecConnect /\ WF_vars(ProgramStep)


(***************************************************************************)
(* Claims about mode switching and connect.                                *)
(***************************************************************************)
ColdConnectEnded ==
    /\ command = "lcd"
    /\ connRet # "none"
    /\ firstProbe = "absent"

\* C5: in a cold connect (LCD absent at the first probe, standby HID
\* present) connect calls wake_from_desktop, whose operations on the HID are
\* exactly: claim interface 1, one write on endpoint 0x02 of 512 bytes
\* ("5f3759df", then zeros), release interface 1; and when a poll has seen
\* the LCD enumerate, connect probes a second time, claims interface 0 and
\* returns True.
C5_ColdConnectWakesAndSucceeds ==
    (ColdConnectEnded /\ hidProbe = "present") =>
        /\ Len(hidLog) = 3
        /\ hidLog[1] = [op |-> "claim", intf |-> 1]
        /\ hidLog[2].op = "write"
        /\ hidLog[2].ep = 2
        /\ hidLog[2].data = <<53, 102, 51, 55, 53, 57, 100, 102>> \o Zeros(504)
        /\ hidLog[3] = [op |-> "release", intf |-> 1]
        /\ pollHit => /\ connRet = "true"
                      /\ connProbes = 2
                      /\ mpc = "m_cmd" => lcdClaimed

\* C6: a connect that found no LCD at the first probe and then either no HID,
\* or sent the wake packet without a poll ever seeing the LCD, returns
\* False, has claimed no LCD interface and has written nothing to the LCD.
C6_AbsentConnectReturnsFalse ==
    (ColdConnectEnded /\ (hidProbe = "absent" \/ (wakeWrote = "ok" /\ ~pollHit))) =>
        /\ connRet = "false"
        /\ ~lcdClaimed
        /\ lcdWrites = 0

C7_PollingBounded ==
    /\ polls <= 20
    /\ wpc = "w_poll" => (~pollHit /\ wakeWrote # "no")
    /\ pollHit => (wakeRet = "true" /\ polls \in 1..20)
    /\ wakeRet = "true" => (pollHit /\ wakeWrote # "no")
    /\ (wakeRet = "false" /\ wakeWrote # "no") => (~pollHit /\ polls = 20)

C8_WakeWithoutHidIsNoOp ==
    [][(wpc = "w_find" /\ wpc' # "w_find" /\ ~HidPresent) =>
          /\ wpc' = "w_done"
          /\ wakeRet' = "false"
          /\ UNCHANGED <<busVars, hidClaimed, lcdClaimed, hidLog, lcdWrites,
                         polls, wakeWrote>>]_vars

C8_Witness ==
    /\ runs = 2
    /\ bus = "monitor"
    /\ wpc = "w_done"
    /\ wakeRet = "false"
    /\ wakeWrote = "no"
    /\ hidLog = <<>>
    /\ ~hidClaimed


(***************************************************************************)
(* SpecSend: LCDDevice._send_and_read, called once per chunk by the loop   *)
(* of play_h264, and the LCD behind it.                                    *)
(*                                                                         *)
(* The device answers a command it received when it gets to it: promptly,  *)
(* after the 2000 ms read timeout of the call, or never.  It may leave the *)
(* bus (unplugged, reset) and come back; a handle opened before that is    *)
(* stale and every USB call on it raises USBError.  A write on a good      *)
(* handle may still time out.                                              *)
\* C25: every device handle claimed while a command executes (LCD interface
\* 0, LED interface 0, standby HID interface 1) is released by the time the
\* command ends, whether it ends normally or through an exception raised by
\* a USB operation in between.
C25_HandlesReleasedAtExit ==
    mpc = "m_exit" => (~lcdClaimed /\ ~ledClaimed /\ ~hidClaimed)

(***************************************************************************)
InitSend ==
    /\ lcdOnBus = TRUE /\ dev = "valid" /\ inq = <<>> /\ late = {} /\ drops = 0
    /\ spc = "idle" /\ sendNo = 0 /\ nWrites = 0 /\ nReconnects = 0
    /\ firstWriteFailed = FALSE /\ reconnected = "none" /\ retryFailed = FALSE
    /\ readTimedOut = FALSE /\ sret = "none" /\ srespTag = 0

\* ---- the device ----

DeviceResponds ==
    /\ lcdOnBus
    /\ \E k \in late :
          /\ inq' = Append(inq, k)
          /\ late' = late \ {k}
    /\ UNCHANGED <<lcdOnBus, dev, drops, callVars>>
    /\ UNCHANGED notSend

DeviceDrops ==
    /\ lcdOnBus
    /\ drops < MaxDrops
    /\ lcdOnBus' = FALSE
    /\ drops' = drops + 1
    /\ dev' = (IF dev = "valid" THEN "stale" ELSE dev)
    /\ inq' = <<>>
    /\ late' = {}
    /\ UNCHANGED callVars
    /\ UNCHANGED notSend

DeviceReturns ==
    /\ ~lcdOnBus
    /\ lcdOnBus' = TRUE
    /\ UNCHANGED <<dev, inq, late, drops, callVars>>
    /\ UNCHANGED notSend

\* ---- the caller: play_h264, lines 486-502 ----

SendCall ==
    /\ spc = "idle"
    /\ sendNo < MaxSends
    /\ sendNo' = sendNo + 1
    /\ spc' = "flush1"
    /\ nWrites' = 0 /\ nReconnects' = 0 /\ firstWriteFailed' = FALSE
    /\ reconnected' = "none" /\ retryFailed' = FALSE /\ readTimedOut' = FALSE
    /\ sret' = "none" /\ srespTag' = 0
    /\ UNCHANGED linkVars
    /\ UNCHANGED notSend

\* The call has returned; an exception ends the loop (play_h264 catches
\* KeyboardInterrupt only).
SendReturn ==
    /\ spc = "ret"
    /\ spc' = (IF sret = "raised" THEN "dead" ELSE "idle")
    /\ UNCHANGED <<linkVars, sendNo, nWrites, nReconnects, firstWriteFailed,
                   reconnected, retryFailed, readTimedOut, sret, srespTag>>
    /\ UNCHANGED notSend

\* ---- _flush_read, lines 299-305 ----

\* One self.dev.read(0x81, 512, timeout=10) of the loop: data is dropped and
\* the loop goes on; a timeout or any USBError ends it; on self.dev = None
\* the attribute lookup raises AttributeError, which nothing catches.
FlushStep(at, next) ==
    /\ spc = at
    /\ CASE dev = "none" ->
              /\ spc' = "ret" /\ sret' = "raised"
              /\ UNCHANGED inq
         [] dev = "valid" /\ inq # <<>> ->
              /\ inq' = Tail(inq)
              /\ UNCHANGED <<spc, sret>>
         [] OTHER ->
              /\ spc' = next
              /\ UNCHANGED <<inq, sret>>
    /\ UNCHANGED <<lcdOnBus, dev, late, drops, sendNo, nWrites, nReconnects,
                   firstWriteFailed, reconnected, retryFailed, readTimedOut, srespTag>>
    /\ UNCHANGED notSend

\* line 314
FlushBefore == FlushStep("flush1", "write1")

\* ---- _send_and_read, lines 307-332 ----

\* lines 316-318: the first write
FirstWrite ==
    /\ spc = "write1"
    /\ nWrites' = nWrites + 1
    /\ \E ok \in (IF dev = "valid" THEN BOOLEAN ELSE {FALSE}) :
          IF ok
          THEN /\ late' = late \cup {sendNo}
               /\ spc' = "read"
               /\ UNCHANGED firstWriteFailed
          ELSE /\ firstWriteFailed' = TRUE
               /\ spc' = "reconnect"
               /\ UNCHANGED late
    /\ UNCHANGED <<lcdOnBus, dev, inq, drops, sendNo, nReconnects, reconnected,
                   retryFailed, readTimedOut, sret, srespTag>>
    /\ UNCHANGED notSend

\* lines 319-320 and 275-287: _reconnect up to usb.core.find
ReconnectFind ==
    /\ spc = "reconnect"
    /\ nReconnects' = nReconnects + 1
    /\ IF lcdOnBus
       THEN /\ dev' = "valid"
            /\ spc' = "reopen"
            /\ UNCHANGED <<reconnected, sret>>
       ELSE /\ dev' = "none"
            /\ reconnected' = "notfound"
            /\ sret' = "None"
            /\ spc' = "ret"
    /\ UNCHANGED <<lcdOnBus, inq, late, drops, sendNo, nWrites, firstWriteFailed,
                   retryFailed, readTimedOut, srespTag>>
    /\ UNCHANGED notSend

\* lines 288-295: is_kernel_driver_active / detach_kernel_driver, not guarded,
\* set_configuration, claim_interface
ReconnectOpen ==
    /\ spc = "reopen"
    /\ IF dev = "valid"
       THEN /\ reconnected' = "ok"
            /\ spc' = "write2"
            /\ UNCHANGED sret
       ELSE /\ reconnected' = "raised"
            /\ sret' = "raised"
            /\ spc' = "ret"
    /\ UNCHANGED <<linkVars, sendNo, nWrites, nReconnects, firstWriteFailed,
                   retryFailed, readTimedOut, srespTag>>
    /\ UNCHANGED notSend

\* lines 321-324: the one retry
RetryWrite ==
    /\ spc = "write2"
    /\ nWrites' = nWrites + 1
    /\ \E ok \in (IF dev = "valid" THEN BOOLEAN ELSE {FALSE}) :
          IF ok
          THEN /\ late' = late \cup {sendNo}
               /\ spc' = "read"
               /\ UNCHANGED <<retryFailed, sret>>
          ELSE /\ retryFailed' = TRUE
               /\ sret' = "None"
               /\ spc' = "ret"
               /\ UNCHANGED late
    /\ UNCHANGED <<lcdOnBus, dev, inq, drops, sendNo, nReconnects, firstWriteFailed,
                   reconnected, readTimedOut, srespTag>>
    /\ UNCHANGED notSend

\* lines 327-332: self.dev.read(0x81, 512, timeout=2000)
ReadResponse ==
    /\ spc = "read"
    /\ IF dev = "valid" /\ inq # <<>>
       THEN /\ srespTag' = Head(inq)
            /\ inq' = Tail(inq)
            /\ sret' = "resp"
            /\ spc' = "flush2"
            /\ UNCHANGED readTimedOut
       ELSE /\ readTimedOut' = TRUE
            /\ sret' = "None"
            /\ spc' = "ret"
            /\ UNCHANGED <<inq, srespTag>>
    /\ UNCHANGED <<lcdOnBus, dev, late, drops, sendNo, nWrites, nReconnects,
                   firstWriteFailed, reconnected, retryFailed>>
    /\ UNCHANGED notSend

\* line 329
FlushAfter == FlushStep("flush2", "ret")

NextSend ==
    \/ DeviceResponds \/ DeviceDrops \/ DeviceReturns
    \/ SendCall \/ SendReturn
    \/ FlushBefore \/ FirstWrite \/ ReconnectFind \/ ReconnectOpen \/ RetryWrite
    \/ ReadResponse \/ FlushAfter

StartSend == InitSend /\ IdleCodec /\ IdleConn /\ IdleStream /\ IdleDisplay /\ IdleLed /\ IdleAmbi /\ IdleSample /\ IdlePlay /\ IdleShut

SpecSend == StartSend /\ [][NextSend]_vars

(***************************************************************************)
(* Claims about _send_and_read.                                            *)
(***************************************************************************)
\* C3: a call of _send_and_read that reached its first write makes at most
\* two writes and one _reconnect, reconnects exactly when the first write
\* failed and retries only after a reconnect that succeeded; it returns None
\* when the reconnect failed, the retried write failed or the read timed
\* out, and the response otherwise.
C3_RetryOnceThenNone ==
    /\ nWrites <= 2
    /\ nReconnects <= 1
    /\ (spc = "ret" /\ nWrites >= 1) =>
          /\ nReconnects = (IF firstWriteFailed THEN 1 ELSE 0)
          /\ nWrites = 2 => (firstWriteFailed /\ reconnected = "ok")
          /\ IF \/ firstWriteFailed /\ reconnected # "ok"
                \/ retryFailed
                \/ readTimedOut
             THEN sret = "None"
             ELSE sret = "resp"

\* C4: at the moment of every bulk OUT write no response is waiting on the
\* IN endpoint, and a call whose write went out either read exactly the
\* response to the packet it wrote or saw the read time out.
C4_QueueEmptyAtWrite ==
    /\ spc \in {"write1", "write2"} => inq = <<>>
    /\ (spc = "ret" /\ sret = "resp") => srespTag = sendNo
    /\ (spc = "ret" /\ sret \in {"resp", "None"} /\ ~retryFailed /\ reconnected # "notfound") =>
          (sret = "resp") # readTimedOut

\* C27: no response desync: every response _send_and_read returns is the
\* device's answer to the frame written in that same call; the late answer
\* to an earlier command, one whose read timed out for example, is never
\* returned as the response to a later command.
C27_NoResponseDesync ==
    [][(sret' = "resp" /\ sret # "resp") => srespTag' = sendNo']_vars


(***************************************************************************)
(* SpecStream: LCDDevice.play_h264 with check_h264_block, _wait_buffer and *)
(* stop_play.                                                              *)
(*                                                                         *)
(* The file is held by its size: a chunk is the slice of the file it was   *)
(* read from (offset and length), so the chunks of a pass concatenate to   *)
(* the file exactly when they are contiguous from offset 0 to the size.    *)
(* Sizes stay below 2^31.  Each packet goes through _send_and_read, whose  *)
(* steps are those of SpecSend; here a send is one step with the outcomes  *)
(* those steps can end in.                                                 *)
(***************************************************************************)
\* None where a response is expected: no length.
NoBlock == [len |-> -1, at8 |-> <<0, 0, 0, 0>>]
NoResponse == [len |-> -1, d |-> 0]

playArgs == <<fileExists, fileSize, loop, playCmd, playCount, devBlock>>

FileSizes == {0, 1, 202752, 202753, 1048576}

\* Answers to GetH264Block: 512 bytes with a size at offsets 8..11 (0, 100000,
\* 524288), or 8 bytes only.
DevBlocks ==
    {[len |-> 512, at8 |-> b] : b \in {<<0, 0, 0, 0>>, <<0, 1, 134, 160>>, <<0, 8, 0, 0>>}}
    \cup {[len |-> 8, at8 |-> <<0, 0, 0, 0>>]}

\* play_cmd and play_count as passed: the defaults main uses, and another
\* slot with a count that needs the & 0xFF.
PlayParams == {<<CMD_START_PLAY, 1>>, <<CMD_START_PLAY2, 257>>}

\* Responses to a chunk or a poll: 512 bytes with the depth byte of the slot,
\* or too short to hold it.
Responses == {[len |-> 512, d |-> x] : x \in {2, 3, 4}} \cup {[len |-> 8, d |-> 4]}

InitStream ==
    /\ fileExists \in BOOLEAN
    /\ fileSize \in FileSizes
    /\ loop \in BOOLEAN
    /\ \E pp \in PlayParams : playCmd = pp[1] /\ playCount = pp[2]
    /\ devBlock \in DevBlocks
    /\ blockResp = NoBlock
    /\ h264_buf_len = DEFAULT_BUF_LEN /\ buf_len = 0
    /\ ppc = "start" /\ pos = 0 /\ chunks = <<>> /\ resp = [len |-> -1, d |-> 0] /\ waitPolls = 0
    /\ pollResp = [len |-> -1, d |-> 0]
    /\ nStop = 0 /\ lastCmd = 0 /\ cancelled = FALSE /\ pret = "none"
    /\ lcdOnBus = TRUE /\ dev = "valid" /\ inq = <<>> /\ late = {} /\ drops = 0
    /\ spc = "off" /\ sendNo = 0 /\ nWrites = 0 /\ nReconnects = 0
    /\ firstWriteFailed = FALSE /\ reconnected = "none" /\ retryFailed = FALSE
    /\ readTimedOut = FALSE /\ sret = "none" /\ srespTag = 0

\* What a call of _send_and_read ends in and what it leaves in self.dev:
\* a response; None with the handle kept (read timeout, retried write
\* failed); None with self.dev = None (_reconnect found no device);
\* USBError out of _reconnect; AttributeError when self.dev is None at
\* entry.
SendOutcomes(d) ==
    IF d = "none"
    THEN {[r |-> "AttributeError", dev |-> "none"]}
    ELSE {[r |-> "resp", dev |-> "valid"], [r |-> "None", dev |-> "valid"],
          [r |-> "None", dev |-> "none"], [r |-> "USBError", dev |-> "stale"]}

Raises(o) == o.r \in {"AttributeError", "USBError"}

\* lines 400-401: (resp[8] << 24) | (resp[9] << 16) | (resp[10] << 8) | resp[11]
UnpackBE32(b) == b[1] * 16777216 + b[2] * 65536 + b[3] * 256 + b[4]

\* check_h264_block with the larger of the two sizes.
CheckH264BlockMax(h, r) ==
    IF r.len >= 0 /\ r.len > 11 /\ UnpackBE32(r.at8) > 0
    THEN Max(UnpackBE32(r.at8), h)
    ELSE h

\* check_h264_block, lines 397-405: the new self.h264_buf_len for response r
CheckH264Block(h, r) ==
    IF r.len >= 0 /\ r.len > 11 /\ UnpackBE32(r.at8) > 0
    THEN UnpackBE32(r.at8)
    ELSE h

\* header_data with the length little-endian.
HeaderDataLE(data_len, count) ==
    <<data_len % 256, (data_len \div 256) % 256, (data_len \div 65536) % 256,
      (data_len \div 16777216) % 256, 0, count % 256>>

\* header_data, lines 492-496
HeaderData(data_len, count) ==
    <<(data_len \div 16777216) % 256, (data_len \div 65536) % 256,
      (data_len \div 256) % 256, data_len % 256, 0, count % 256>>

\* buf_idx, lines 457 and 481
BufIdx(c) ==
    CASE c = CMD_START_PLAY -> 8
      [] c = CMD_START_PLAY1 -> 9
      [] c = CMD_START_PLAY2 -> 10
      [] OTHER -> 8

\* The chunk packet of lines 490-497 for the data_len bytes read at off.
ChunkPacket(off, data_len) ==
    LET hdr == Plain(playCmd, HeaderData(data_len, playCount), [hi |-> 0, lo |-> 0])
    IN [cmd |-> hdr[1],
        args |-> SubSeq(hdr, ArgOffset + 1, ArgOffset + 6),
        off |-> off,
        len |-> data_len,
        xfer |-> PacketLen + data_len]

\* play_h264 without the os.path.exists check.
PlayStartNoCheck ==
    /\ ppc = "start"
    /\ ppc' = "query" /\ pret' = pret
    /\ UNCHANGED <<playArgs, blockResp, h264_buf_len, buf_len, pos, chunks, resp, waitPolls, pollResp,
                   nStop, lastCmd, cancelled, dev>>
    /\ UNCHANGED notStream

\* lines 475-477
PlayStart ==
    /\ ppc = "start"
    /\ IF fileExists
       THEN ppc' = "query" /\ pret' = pret
       ELSE ppc' = "done" /\ pret' = "False"
    /\ UNCHANGED <<playArgs, blockResp, h264_buf_len, buf_len, pos, chunks, resp, waitPolls, pollResp,
                   nStop, lastCmd, cancelled, dev>>
    /\ UNCHANGED notStream

\* lines 479-481: self.check_h264_block(); buf_len = self.h264_buf_len
PlayQuery ==
    /\ ppc = "query"
    /\ lastCmd' = CMD_GET_H264_BLOCK
    /\ \E o \in SendOutcomes(dev) :
          /\ dev' = o.dev
          /\ IF Raises(o)
             THEN /\ ppc' = "raised" /\ pret' = "raised"
                  /\ UNCHANGED <<blockResp, h264_buf_len, buf_len>>
             ELSE /\ blockResp' = (IF o.r = "resp" THEN devBlock ELSE NoBlock)
                  /\ h264_buf_len' = CheckH264Block(h264_buf_len, blockResp')
                  /\ buf_len' = h264_buf_len'
                  /\ ppc' = "open"
                  /\ UNCHANGED pret
    /\ UNCHANGED <<playArgs, pos, chunks, resp, waitPolls, pollResp, nStop, cancelled>>
    /\ UNCHANGED notStream

\* lines 484-485: a pass begins
PlayOpen ==
    /\ ppc = "open"
    /\ pos' = 0
    /\ chunks' = <<>>
    /\ ppc' = "read"
    /\ UNCHANGED <<playArgs, blockResp, h264_buf_len, buf_len, resp, waitPolls, pollResp,
                   nStop, lastCmd,
                   cancelled, pret, dev>>
    /\ UNCHANGED notStream

\* lines 487-502: one chunk read, framed and sent
PlayChunk ==
    /\ ppc = "read"
    /\ pos < fileSize
    /\ LET data_len == Min(buf_len, fileSize - pos) IN
          /\ pos' = pos + data_len
          /\ chunks' = Append(chunks, ChunkPacket(pos, data_len))
    /\ lastCmd' = playCmd
    /\ \E o \in SendOutcomes(dev) :
          /\ dev' = o.dev
          /\ IF Raises(o)
             THEN /\ ppc' = "raised" /\ pret' = "raised"
                  /\ UNCHANGED <<resp, waitPolls, pollResp>>
             ELSE /\ \E r \in (IF o.r = "resp" THEN Responses ELSE {NoResponse}) :
                        /\ resp' = r
                        /\ IF r.len >= 0 /\ r.len > BufIdx(playCmd) /\ r.d > 3
                           THEN ppc' = "wait" /\ waitPolls' = 0
                           ELSE ppc' = "read" /\ waitPolls' = waitPolls
                        /\ pollResp' = NoResponse
                  /\ UNCHANGED pret
    /\ UNCHANGED <<playArgs, blockResp, h264_buf_len, buf_len, nStop, cancelled>>
    /\ UNCHANGED notStream

\* lines 488-489: f.read returns b'' at the end of the file
PlayEof ==
    /\ ppc = "read"
    /\ pos >= fileSize
    /\ ppc' = "eof"
    /\ UNCHANGED <<playArgs, blockResp, h264_buf_len, buf_len, pos, chunks, resp, waitPolls, pollResp,
                   nStop, lastCmd, cancelled, pret, dev>>
    /\ UNCHANGED notStream

\* lines 504-505
PlayPassEnd ==
    /\ ppc = "eof"
    /\ ppc' = (IF loop THEN "open" ELSE "stop")
    /\ UNCHANGED <<playArgs, blockResp, h264_buf_len, buf_len, pos, chunks, resp, waitPolls, pollResp,
                   nStop, lastCmd, cancelled, pret, dev>>
    /\ UNCHANGED notStream

\* One poll that lets the stream go on at a depth of 3.
WaitPollUntil3 ==
    /\ ppc = "wait"
    /\ waitPolls < WAIT_POLLS
    /\ lastCmd' = CMD_QUERY_BLOCK
    /\ \E o \in SendOutcomes(dev) :
          /\ dev' = o.dev
          /\ CASE o.r = "AttributeError" ->
                    /\ ppc' = "raised" /\ pret' = "raised"
                    /\ waitPolls' = 0
                    /\ pollResp' = NoResponse
               [] o.r = "USBError" ->
                    /\ waitPolls' = waitPolls + 1
                    /\ UNCHANGED <<ppc, pret, pollResp>>
               [] OTHER ->
                    /\ \E r \in (IF o.r = "resp" THEN Responses ELSE {NoResponse}) :
                          /\ pollResp' = r
                          /\ IF r.len >= 0 /\ r.len > BufIdx(playCmd) /\ r.d <= 3
                             THEN ppc' = "read" /\ waitPolls' = 0
                             ELSE ppc' = "wait" /\ waitPolls' = waitPolls + 1
                    /\ UNCHANGED pret
    /\ UNCHANGED <<playArgs, blockResp, h264_buf_len, buf_len, pos, chunks, resp, nStop, cancelled>>
    /\ UNCHANGED notStream

\* _wait_buffer, lines 458-466: one poll.  USBError is caught and the loop
\* goes on; AttributeError is not.  The loop counter is a local of
\* _wait_buffer and ends with the call.
WaitPoll ==
    /\ ppc = "wait"
    /\ waitPolls < WAIT_POLLS
    /\ lastCmd' = CMD_QUERY_BLOCK
    /\ \E o \in SendOutcomes(dev) :
          /\ dev' = o.dev
          /\ CASE o.r = "AttributeError" ->
                    /\ ppc' = "raised" /\ pret' = "raised"
                    /\ waitPolls' = 0
                    /\ pollResp' = NoResponse
               [] o.r = "USBError" ->
                    /\ waitPolls' = waitPolls + 1
                    /\ UNCHANGED <<ppc, pret, pollResp>>
               [] OTHER ->
                    /\ \E r \in (IF o.r = "resp" THEN Responses ELSE {NoResponse}) :
                          /\ pollResp' = r
                          /\ IF r.len >= 0 /\ r.len > BufIdx(playCmd) /\ r.d <= 2
                             THEN ppc' = "read" /\ waitPolls' = 0
                             ELSE ppc' = "wait" /\ waitPolls' = waitPolls + 1
                    /\ UNCHANGED pret
    /\ UNCHANGED <<playArgs, blockResp, h264_buf_len, buf_len, pos, chunks, resp, nStop, cancelled>>
    /\ UNCHANGED notStream

\* line 458: the 200 polls are used up
WaitGiveUp ==
    /\ ppc = "wait"
    /\ waitPolls = WAIT_POLLS
    /\ ppc' = "read"
    /\ waitPolls' = 0
    /\ UNCHANGED <<playArgs, blockResp, h264_buf_len, buf_len, pos, chunks, resp, pollResp,
                   nStop, lastCmd, cancelled, pret, dev>>
    /\ UNCHANGED notStream

\* KeyboardInterrupt: caught inside the try of lines 483-507, and leaving
\* play_h264 when raised before it or during stop_play.
Interrupt ==
    /\ ~cancelled
    /\ ppc \in {"start", "query", "open", "read", "eof", "wait", "stop"}
    /\ cancelled' = TRUE
    /\ IF ppc \in {"open", "read", "eof", "wait"}
       THEN ppc' = "stop" /\ pret' = pret
       ELSE ppc' = "raised" /\ pret' = "raised"
    /\ waitPolls' = 0
    /\ pollResp' = NoResponse
    /\ UNCHANGED <<playArgs, blockResp, h264_buf_len, buf_len, pos, chunks, resp,
                   nStop, lastCmd, dev>>
    /\ UNCHANGED notStream

\* lines 509-511: stop_play and return True
PlayStop ==
    /\ ppc = "stop"
    /\ nStop' = nStop + 1
    /\ lastCmd' = CMD_STOP_PLAY
    /\ \E o \in SendOutcomes(dev) :
          /\ dev' = o.dev
          /\ IF Raises(o)
             THEN ppc' = "raised" /\ pret' = "raised"
             ELSE ppc' = "done" /\ pret' = "True"
    /\ UNCHANGED <<playArgs, blockResp, h264_buf_len, buf_len, pos, chunks, resp, waitPolls, pollResp,
                   cancelled>>
    /\ UNCHANGED notStream

NextStream ==
    \/ PlayStart \/ PlayQuery \/ PlayOpen \/ PlayChunk \/ PlayEof \/ PlayPassEnd
    \/ WaitPoll \/ WaitGiveUp \/ Interrupt \/ PlayStop

StartStream == InitStream /\ IdleCodec /\ IdleConn /\ IdleDisplay /\ IdleLed /\ IdleAmbi /\ IdleSample /\ IdlePlay /\ IdleShut

SpecStream == StartStream /\ [][NextStream]_vars

\* The steps of the program itself: the interpreter keeps running play_h264;
\* whether KeyboardInterrupt is raised is up to the user.
PlayStep ==
    \/ PlayStart \/ PlayQuery \/ PlayOpen \/ PlayChunk \/ PlayEof \/ PlayPassEnd
    \/ WaitPoll \/ WaitGiveUp \/ PlayStop

SpecStreamFair == SpecStream /\ WF_vars(PlayStep)

(***************************************************************************)
(* Claims about play_h264.                                                 *)
(***************************************************************************)
Ceil(a, b) == (a + b - 1) \div b

\* The chunk packets of the pass so far are cut from the file in order, at
\* multiples of the capacity, and each declares its own payload length.
ChunksInOrder ==
    \A i \in 1..Len(chunks) :
       LET k == chunks[i] IN
          /\ k.cmd = playCmd
          /\ k.off = (i - 1) * buf_len
          /\ k.len > 0
          /\ k.off + k.len <= fileSize
          /\ i < Len(chunks) => k.len = buf_len
          /\ k.len <= buf_len
          /\ UnpackBE32(SubSeq(k.args, 1, 4)) = k.len
          /\ k.args[5] = 0
          /\ k.args[6] = playCount % 256
          /\ k.xfer = PacketLen + k.len

\* C9: the chunk packets of a pass are cut from the file in order, each but
\* the last of exactly the capacity; each declares its payload length as a
\* 32-bit big-endian integer followed by 0 and the count; and when the pass
\* has reached the end of a file of S > 0 bytes there are ceil(S/C) of them
\* and they end at byte S, so that concatenated they are the file.
C9_PassChunksTheFile ==
    /\ ChunksInOrder
    /\ (ppc = "eof" /\ fileSize > 0) =>
          /\ Len(chunks) = Ceil(fileSize, buf_len)
          /\ chunks[Len(chunks)].off + chunks[Len(chunks)].len = fileSize

C9_Witness ==
    /\ ppc = "eof"
    /\ fileSize = 1048576
    /\ buf_len = DEFAULT_BUF_LEN
    /\ Len(chunks) = 6
    /\ chunks[6].len = 34816
    /\ chunks[6].args = <<0, 0, 136, 0, 0, 1>>

\* check_h264_block has returned into play_h264.
Queried == ppc \in {"open", "read", "eof", "wait", "stop", "done"} /\ fileExists

\* The size the device reported: 0 when there was no response or a short one.
ReportedSize == IF blockResp.len > 11 THEN UnpackBE32(blockResp.at8) ELSE 0

\* C10 as stated: the capacity is the larger of the reported size and the
\* default 202752.
C10_CapacityIsMax == Queried => buf_len = Max(ReportedSize, DEFAULT_BUF_LEN)

\* C10: the capacity play_h264 uses is the size the device reported when it
\* reported one greater than 0, smaller or larger than the default, and the
\* default 202752 when the device could not be queried (no response, short
\* response or size 0).
C10_CapacityIsReportedOrDefault ==
    Queried =>
        /\ buf_len = h264_buf_len
        /\ buf_len = (IF ReportedSize > 0 THEN ReportedSize ELSE DEFAULT_BUF_LEN)

C10_Witness ==
    /\ ppc = "eof"
    /\ ReportedSize = 100000
    /\ buf_len = 100000
    /\ fileSize = 202753
    /\ Len(chunks) = 3


\* The depth byte of the slot in a response, -1 when the response is None or
\* too short to hold it (lines 465 and 501).
Depth(r) == IF r.len >= 0 /\ r.len > BufIdx(playCmd) THEN r.d ELSE -1

\* A chunk was handed to the transport in this step and the send returned.
ChunkSent == Len(chunks') = Len(chunks) + 1 /\ ppc' # "raised"

C11_Step ==
    /\ ChunkSent => (ppc' = "wait" <=> Depth(resp') > 3)
    /\ (ppc # "wait" /\ ppc' = "wait") => (ChunkSent /\ waitPolls' = 0)
    /\ ppc = "wait" =>
          /\ chunks' = chunks /\ pos' = pos
          /\ lastCmd' \in {lastCmd, CMD_QUERY_BLOCK}
          /\ waitPolls = WAIT_POLLS => lastCmd' = lastCmd /\ ppc' \in {"read", "stop"}
          /\ ppc' = "wait" => (waitPolls' = waitPolls + 1 /\ lastCmd' = CMD_QUERY_BLOCK)
          /\ ppc' = "read" =>
                \/ waitPolls < WAIT_POLLS /\ Depth(pollResp') \in 0..2
                                         /\ lastCmd' = CMD_QUERY_BLOCK
                \/ waitPolls = WAIT_POLLS

C11_Waiting ==
    /\ waitPolls <= WAIT_POLLS
    /\ ppc = "wait" =>
          /\ Depth(resp) > 3
          /\ Depth(pollResp) \notin 0..2
          /\ lastCmd \in {playCmd, CMD_QUERY_BLOCK}

\* C11: a chunk send is followed by the flow-control wait exactly when the
\* depth byte of its response exceeds 3; while waiting no chunk is sent and
\* no file byte is read, the only packets are query_block polls, at most 200
\* of them; the wait goes on after every poll whose depth byte is not <= 2 and
\* ends, with the stream going on, at the first poll whose depth byte is <= 2
\* or after the 200th poll.
C11_FlowControl == [][C11_Step]_vars /\ []C11_Waiting

C11_Witness ==
    /\ ppc = "wait"
    /\ waitPolls = WAIT_POLLS
    /\ Depth(resp) = 4
    /\ Depth(pollResp) = 3
    /\ Len(chunks) = 2


\* play_h264 has ended, by a return or by an exception.
PlayEnded == ppc \in {"done", "raised"}

\* A step that ends play_h264 after the file was found (line 477 passed),
\* by the return or following a cancellation.
ExitAfterFound ==
    /\ ppc \notin {"start", "done", "raised"}
    /\ ppc' \in {"done", "raised"}
    /\ pret' = "True" \/ cancelled'

\* C12: when play_h264 ends after the file was found, by its normal exit or
\* after a cancellation at any point of the call, stop_play has been sent
\* exactly once and is the last LCD packet of the call.
C12_StopPlayOnEveryExit ==
    /\ [](nStop <= 1 /\ (nStop = 1 => lastCmd = CMD_STOP_PLAY))
    /\ [][ExitAfterFound => (nStop' = 1 /\ lastCmd' = CMD_STOP_PLAY)]_vars


\* Cancellation was requested inside the streaming loop and caught.
CancelCaught == cancelled /\ ppc = "stop"

\* C13: once cancellation is requested inside the streaming loop, between
\* chunks or inside the flow-control polling, with loop on or off, no further
\* chunk is sent and play_h264 eventually returns; and with loop off
\* play_h264 comes to its end in any case.
C13_CancelEndsTheLoop ==
    /\ [][cancelled => chunks' = chunks]_vars
    /\ CancelCaught ~> (ppc = "done" /\ pret = "True")
    /\ (~loop) => <>PlayEnded


\* A chunk was handed to _send_and_read in this step and the send failed for
\* good: the write failed and _reconnect found no device, which leaves
\* self.dev = None, or self.dev was None already.
ChunkSendFailed == Len(chunks') = Len(chunks) + 1 /\ dev' = "none"

\* C14: a chunk send that fails for good makes play_h264 abort: its next
\* step is the stop_play, and once the device is lost no further chunk is
\* sent and no exception leaves play_h264 (an uncaught cancellation apart).
C14_PersistentFailureAborts ==
    /\ [][ChunkSendFailed => ppc' = "stop"]_vars
    /\ [][dev = "none" => /\ Len(chunks') <= Len(chunks)
                          /\ pret' = "raised" => cancelled']_vars


\* C15: play_h264 on a path that does not exist returns False and nothing
\* else: no capacity query, no chunk, no poll and no stop_play is sent, and
\* self.dev and the endpoints are as they were.
C15_MissingFileNoUsb ==
    (~fileExists) =>
        /\ lastCmd = 0 /\ nStop = 0 /\ chunks = <<>> /\ waitPolls = 0
        /\ dev = "valid" /\ inq = <<>> /\ late = {} /\ nWrites = 0
        /\ h264_buf_len = DEFAULT_BUF_LEN
        /\ (ppc # "start" /\ ~cancelled) => (ppc = "done" /\ pret = "False")

C15_Witness == ~fileExists /\ ppc = "done" /\ pret = "False" /\ lastCmd = 0


(***************************************************************************)
(* SpecDisplay: prepare_display with sync_clock, stop_clock, clear_layers  *)
(* and push_image, and set_brightness, set_rotation, set_framerate.        *)
(*                                                                         *)
(* A PNG file is what PIL writes for an image: the model holds the image   *)
(* (mode, size, colour of every pixel) and the length of the file.         *)
(***************************************************************************)
DisplayOps == {"prepare_display", "set_brightness", "set_rotation", "set_framerate"}

DisplayArgs == {-5, -1, 0, 1, 2, 3, 4, 5, 7, 30, 50, 99, 100, 101, 150, 256}

Clocks ==
    {[year |-> 2026, month |-> 11, day |-> 1, hour |-> 3, minute |-> 2, second |-> 31],
     [year |-> 2024, month |-> 2, day |-> 29, hour |-> 23, minute |-> 59, second |-> 59]}

PngSizes == {1, 1807, 70000}

NoImage == [mode |-> "none", w |-> 0, h |-> 0, colour |-> <<>>]

\* Image.new('RGBA', (WIDTH, HEIGHT), (0, 0, 0, 0)), line 434
TransparentImage == [mode |-> "RGBA", w |-> WIDTH, h |-> HEIGHT, colour |-> <<0, 0, 0, 0>>]

\* Image.new('RGB', (WIDTH, HEIGHT), (0, 0, 0)), line 439
BlackImage == [mode |-> "RGB", w |-> WIDTH, h |-> HEIGHT, colour |-> <<0, 0, 0>>]

InitDisplay ==
    /\ dop \in DisplayOps
    /\ darg \in DisplayArgs
    /\ clock \in Clocks
    /\ pngLens \in PngSizes \X PngSizes
    /\ dpc = "call" /\ out = <<>> /\ dret = "none"
    /\ lcdOnBus = TRUE /\ dev = "valid" /\ inq = <<>> /\ late = {} /\ drops = 0
    /\ spc = "off" /\ sendNo = 0 /\ nWrites = 0 /\ nReconnects = 0
    /\ firstWriteFailed = FALSE /\ reconnected = "none" /\ retryFailed = FALSE
    /\ readTimedOut = FALSE /\ sret = "none" /\ srespTag = 0

\* The transfer send_cmd (n = 0) or send_with_payload (n payload bytes)
\* hands to _send_and_read, lines 334-347.
Transfer(c, data, img, n) ==
    LET hdr == Plain(c, data, [hi |-> 0, lo |-> 0])
    IN [cmd |-> hdr[1],
        args |-> SubSeq(hdr, ArgOffset + 1, ArgOffset + Len(data)),
        img |-> img,
        xfer |-> PacketLen + n]

\* sync_clock data, lines 382-386
ClockData(now, mode) ==
    <<(now.year \div 256) % 256, now.year % 256, now.month, now.day, now.hour,
      now.minute, now.second, mode % 256>>

\* push_image data, lines 417-420
LengthData(length) ==
    <<(length \div 16777216) % 256, (length \div 65536) % 256,
      (length \div 256) % 256, length % 256>>

\* The upper limit alone.
ClampUpper(lo, hi, v) == Min(hi, v)

\* max(lo, min(hi, v)), lines 364 and 372
Clamp(lo, hi, v) == Max(lo, Min(hi, v))

\* rot & 0x03, line 368: the two low bits of the two's complement of rot
And3(rot) == (((rot \div 2) % 2) * 2) + (rot % 2)

\* One transfer of a method: handed to _send_and_read, which returns a
\* response or None, or raises.
Emit(t, next, returns) ==
    /\ out' = Append(out, t)
    /\ \E o \in SendOutcomes(dev) :
          /\ dev' = o.dev
          /\ IF Raises(o)
             THEN dpc' = "raised" /\ dret' = "raised"
             ELSE dpc' = next /\ dret' = (IF returns THEN o.r ELSE dret)
    /\ UNCHANGED <<dop, darg, clock, pngLens>>
    /\ UNCHANGED notDisplay

\* prepare_display, line 449: self.sync_clock(mode=2)
SyncClock ==
    /\ dop = "prepare_display" /\ dpc = "call"
    /\ Emit(Transfer(CMD_SET_CLOCK, ClockData(clock, 2), NoImage, 0), "stop_clock", FALSE)

\* line 450: self.stop_clock()
StopClock ==
    /\ dpc = "stop_clock"
    /\ Emit(Transfer(CMD_STOP_CLOCK, <<0>>, NoImage, 0), "clear_png", FALSE)

\* clear_layers, lines 434-437
ClearPng ==
    /\ dpc = "clear_png"
    /\ Emit(Transfer(CMD_PUSH_PNG, LengthData(pngLens[1]), TransparentImage, pngLens[1]),
            "clear_bg", FALSE)

\* The background cleared with the JPG command.
ClearBackgroundJpg ==
    /\ dpc = "clear_bg"
    /\ Emit(Transfer(CMD_PUSH_JPG, LengthData(pngLens[2]), BlackImage, pngLens[2]),
            "done", FALSE)

\* clear_layers, lines 439-442
ClearBackground ==
    /\ dpc = "clear_bg"
    /\ Emit(Transfer(CMD_PUSH_PNG, LengthData(pngLens[2]), BlackImage, pngLens[2]),
            "done", FALSE)

\* lines 362-364
SetBrightness ==
    /\ dop = "set_brightness" /\ dpc = "call"
    /\ Emit(Transfer(CMD_BRIGHTNESS, <<Clamp(0, 100, darg)>>, NoImage, 0), "done", TRUE)

\* lines 366-368
SetRotation ==
    /\ dop = "set_rotation" /\ dpc = "call"
    /\ Emit(Transfer(CMD_ROTATE, <<And3(darg)>>, NoImage, 0), "done", TRUE)

\* lines 370-372
SetFramerate ==
    /\ dop = "set_framerate" /\ dpc = "call"
    /\ Emit(Transfer(CMD_SET_FRAMERATE, <<Clamp(1, 99, darg)>>, NoImage, 0), "done", TRUE)

NextDisplay ==
    \/ SyncClock \/ StopClock \/ ClearPng \/ ClearBackground
    \/ SetBrightness \/ SetRotation \/ SetFramerate

StartDisplay == InitDisplay /\ IdleCodec /\ IdleConn /\ IdleStream /\ IdleLed /\ IdleAmbi /\ IdleSample /\ IdlePlay /\ IdleShut

SpecDisplay == StartDisplay /\ [][NextDisplay]_vars

(***************************************************************************)
(* Claims about the display commands.                                      *)
(***************************************************************************)
\* What prepare_display is to hand to the transport, in order.
PrepareSent(i) ==
    LET t == out[i] IN
    CASE i = 1 -> /\ t.cmd = 51 /\ Len(t.args) = 8 /\ t.args[8] = 2
                  /\ t.img = NoImage /\ t.xfer = 512
      [] i = 2 -> /\ t.cmd = 52
                  /\ t.img = NoImage /\ t.xfer = 512
      [] i = 3 -> /\ t.cmd = 102
                  /\ t.img = [mode |-> "RGBA", w |-> 480, h |-> 1920, colour |-> <<0, 0, 0, 0>>]
                  /\ t.xfer = 512 + pngLens[1]
                  /\ UnpackBE32(t.args) = pngLens[1]
      [] i = 4 -> /\ t.cmd = 102
                  /\ t.img = [mode |-> "RGB", w |-> 480, h |-> 1920, colour |-> <<0, 0, 0>>]
                  /\ t.xfer = 512 + pngLens[2]
                  /\ UnpackBE32(t.args) = pngLens[2]
      [] OTHER -> FALSE

\* C16: the transfers of prepare_display are, in this order, clock-sync
\* (cmd 51, mode 2), stop-clock (cmd 52), push-png (cmd 102) with a fully
\* transparent 480x1920 image and push-png (cmd 102) with a black 480x1920
\* image, each push one transfer of a 512-byte frame followed by the N PNG
\* bytes whose count the frame declares; command 101 is never used, and when
\* prepare_display has returned all four were sent.
C16_PrepareDisplaySequence ==
    (dop = "prepare_display") =>
        /\ \A i \in 1..Len(out) : PrepareSent(i) /\ out[i].cmd # 101
        /\ dpc = "done" => Len(out) = 4

C16_Witness ==
    /\ dop = "prepare_display" /\ dpc = "done"
    /\ Len(out) = 4
    /\ out[3].xfer = 512 + 1807 /\ out[4].xfer = 512 + 70000
    /\ out[1].args = <<7, 234, 11, 1, 3, 2, 31, 2>>

\* The one argument byte a setter is to emit for its argument.
Clamped ==
    CASE dop = "set_brightness" -> Min(100, Max(0, darg))
      [] dop = "set_framerate" -> Min(99, Max(1, darg))
      [] dop = "set_rotation" -> CHOOSE b \in 0..3 : (darg - b) % 4 = 0
      [] OTHER -> -1

SetterCmd ==
    CASE dop = "set_brightness" -> 14
      [] dop = "set_framerate" -> 15
      [] dop = "set_rotation" -> 13
      [] OTHER -> -1

\* C17: set_brightness emits the single argument byte min(100, max(0, level)),
\* set_framerate min(99, max(1, fps)) and set_rotation rot & 3, whatever the
\* integer passed, and each sends exactly one command frame.
C17_ArgumentsClamped ==
    (dop \in {"set_brightness", "set_framerate", "set_rotation"}) =>
        /\ Len(out) <= 1
        /\ dpc \in {"done", "raised"} => Len(out) = 1
        /\ \A i \in 1..Len(out) :
              /\ out[i].cmd = SetterCmd
              /\ out[i].args = <<Clamped>>
              /\ out[i].args[1] \in 0..255
              /\ out[i].xfer = 512

C17_Witness ==
    /\ dop = "set_brightness" /\ darg = 150 /\ dpc = "done"
    /\ out[1].args = <<100>>


(***************************************************************************)
(* SpecLed: LEDDevice._send, set_leds, set_all and off.  A write to the    *)
(* LED controller raises USBError when the controller has left the bus.    *)
(***************************************************************************)
LedOps == {"set_leds", "set_all", "off"}

\* LED_COLORS, lines 927-932, and the colour of the spec's example.
LedColours ==
    {<<0, 0, 0>>, <<255, 0, 0>>, <<0, 255, 0>>, <<0, 0, 255>>, <<255, 255, 255>>,
     <<0, 255, 255>>, <<255, 0, 255>>, <<255, 255, 0>>, <<138, 146, 164>>,
     <<200, 100, 50>>}

\* Frames as sample_edge_colors returns them: 60 triples, each LED its own
\* colour; and a list shorter than the ring.
LedFrames ==
    {[i \in 1..NUM_LEDS |-> <<(4 * i) % 256, 255 - i, i>>],
     [i \in 1..NUM_LEDS |-> <<i, (7 * i) % 256, 255 - (3 * i)>>],
     [i \in 1..NUM_LEDS |-> <<255, 255, 255>>],
     [i \in 1..25 |-> <<i, i, 200>>]}

InitLed ==
    /\ ledOp \in LedOps
    /\ ledFrame \in (IF ledOp = "set_leds" THEN LedFrames ELSE {<<>>})
    /\ ledColour \in (IF ledOp = "set_all" THEN LedColours ELSE {<<0, 0, 0>>})
    /\ group = 0 /\ lpc = "call" /\ ledOut = <<>> /\ ledReads = 0

\* The packet of one group with the group number in byte 1.
GroupPacketIndex(g, leds_rgb) ==
    [k \in 1..LED_PACKET_LEN |->
        CASE k = 1 -> LED_SET_CMD
          [] k = 2 -> g
          [] k >= 5 ->
               LET i   == (k - 5) \div 3
                   c   == (k - 5) % 3
                   idx == (g * LEDS_PER_GROUP) + i
               IN IF idx < Len(leds_rgb) THEN leds_rgb[idx + 1][c + 1] % 256 ELSE 0
          [] OTHER -> 0]

\* set_leds, lines 593-604: pkt of one group (byte k of the source is
\* element k + 1)
GroupPacket(g, leds_rgb) ==
    [k \in 1..LED_PACKET_LEN |->
        CASE k = 1 -> LED_SET_CMD
          [] k = 2 -> g * LEDS_PER_GROUP
          [] k >= 5 ->
               LET i   == (k - 5) \div 3
                   c   == (k - 5) % 3
                   idx == (g * LEDS_PER_GROUP) + i
               IN IF idx < Len(leds_rgb) THEN leds_rgb[idx + 1][c + 1] % 256 ELSE 0
          [] OTHER -> 0]

\* _send, lines 569-570: buf = bytearray(64); buf[:min(len(data), 64)] = data[:64]
LedBuf(data) ==
    SliceAssignFrom0(Zeros(LED_PACKET_LEN), Min(Len(data), LED_PACKET_LEN),
                     SubSeq(data, 1, Min(Len(data), LED_PACKET_LEN)))

\* off, lines 610-612
LedOff ==
    /\ ledOp = "off" /\ lpc = "call"
    /\ ledColour' = <<0, 0, 0>>
    /\ lpc' = "set_all"
    /\ UNCHANGED <<ledOp, ledFrame, group, ledOut, ledReads>>
    /\ UNCHANGED notLed

\* set_all, lines 606-608
LedSetAll ==
    /\ \/ ledOp = "set_all" /\ lpc = "call"
       \/ lpc = "set_all"
    /\ ledFrame' = [i \in 1..NUM_LEDS |-> ledColour]
    /\ lpc' = "set_leds"
    /\ UNCHANGED <<ledOp, ledColour, group, ledOut, ledReads>>
    /\ UNCHANGED notLed

\* set_leds, lines 593-604, with _send(pkt, read=False), lines 568-573: one
\* turn of the loop
LedGroup ==
    /\ \/ ledOp = "set_leds" /\ lpc = "call"
       \/ lpc = "set_leds"
    /\ group < LED_GROUPS
    /\ ledOut' = Append(ledOut, LedBuf(GroupPacket(group, ledFrame)))
    /\ \E ok \in BOOLEAN :
          IF ok
          THEN /\ group' = group + 1
               /\ lpc' = (IF group + 1 = LED_GROUPS THEN "done" ELSE "set_leds")
          ELSE /\ lpc' = "raised"
               /\ UNCHANGED group
    /\ UNCHANGED <<ledOp, ledFrame, ledColour, ledReads>>
    /\ UNCHANGED notLed

NextLed == LedOff \/ LedSetAll \/ LedGroup

StartLed == InitLed /\ IdleCodec /\ IdleConn /\ IdleSend /\ IdleStream /\ IdleDisplay /\ IdleAmbi /\ IdleSample /\ IdlePlay /\ IdleShut

SpecLed == StartLed /\ [][NextLed]_vars

(***************************************************************************)
(* Claims about the LED ring.                                              *)
(***************************************************************************)
\* The colour region of packet p: its bytes 4..63 as 20 triples.
ColourRegion(p) == [i \in 1..20 |-> <<p[3 * i + 2], p[3 * i + 3], p[3 * i + 4]>>]

\* The colour regions of all packets sent, one after the other.
ColoursSent ==
    [j \in 1..(20 * Len(ledOut)) |-> ColourRegion(ledOut[((j - 1) \div 20) + 1])[((j - 1) % 20) + 1]]

\* C18: set_leds on a frame of 60 triples sends three 64-byte packets in
\* group order 0, 1, 2 and reads no response; packet g has byte 0 = 17,
\* byte 1 = 20 * g, bytes 2..3 = 0 and the triples 20g..20g+19 at bytes
\* 4..63; so set_all(r, g, b) sends 60 repetitions of (r, g, b) and off()
\* three packets with all-zero colour regions.
C18_LedPackets ==
    (lpc \in {"set_leds", "done", "raised"} /\ Len(ledFrame) = 60) =>
        /\ Len(ledOut) <= 3
        /\ ledReads = 0
        /\ \A n \in 1..Len(ledOut) :
              LET p == ledOut[n] IN
                 /\ Len(p) = 64
                 /\ p[1] = 17 /\ p[2] = 20 * (n - 1) /\ p[3] = 0 /\ p[4] = 0
                 /\ \A i \in 1..20 : ColourRegion(p)[i] = ledFrame[20 * (n - 1) + i]
        /\ lpc = "done" =>
              /\ Len(ledOut) = 3
              /\ ColoursSent = ledFrame
              /\ ledOp = "set_all" => ColoursSent = [j \in 1..60 |-> ledColour]
              /\ ledOp = "off" => ColoursSent = [j \in 1..60 |-> <<0, 0, 0>>]

C18_Witness ==
    /\ ledOp = "set_all" /\ ledColour = <<200, 100, 50>>
    /\ lpc = "done" /\ Len(ledOut) = 3
    /\ ledOut[3][2] = 40 /\ ledOut[3][64] = 50


(***************************************************************************)
(* SpecAmbi: AmbilightThread.  The producer (decode_loop, line 891, or the *)
(* frame generator, line 831) hands a newly made image to update_frame on  *)
(* every call; run is the worker thread; stop is called by the main        *)
(* thread.  An image is [id, addr]: id numbers the update_frame call that  *)
(* handed it, addr is the identity the interpreter gave the object, which  *)
(* is what "is" compares.  A new object gets an identity no live object    *)
(* has; the live frames are those self.frame, frame, last_frame and img    *)
(* refer to.                                                               *)
(***************************************************************************)
MaxFrames == 5

MaxAddrs == 4

Addrs == 1..MaxAddrs

LiveAddrs == {frame.addr, run_frame.addr, last_frame.addr, upd_img.addr}

\* The identity of a new object: one no live object has.  Which one it is
\* does not matter, states that differ in the identities of dead objects
\* only behave alike; the least free one is taken, so identities are reused
\* as early as they can be.
NewAddr == CHOOSE a \in Addrs \ LiveAddrs : \A b \in Addrs \ LiveAddrs : a <= b

\* AmbilightThread.__init__ and start(), lines 676-683
InitAmbi ==
    /\ frame = NoFrame /\ run_frame = NoFrame /\ last_frame = NoFrame
    /\ lock = "free" /\ upd_img = NoFrame /\ upc = "idle"
    /\ running = TRUE /\ error_count = 0 /\ logged = 0 /\ apc = "loop"
    /\ written = 0 /\ latestAtRead = 0 /\ everRead = {} /\ processed = <<>>
    /\ ambiPackets = 0

\* The producer has made a new image and calls update_frame(img), line 685.
EnterUpdateFrame ==
    /\ upc = "idle"
    /\ written < MaxFrames
    /\ upd_img' = [id |-> written + 1, addr |-> NewAddr]
    /\ upc' = "wait"
    /\ UNCHANGED <<frame, run_frame, last_frame, lock, running, error_count, logged, apc,
                   written, latestAtRead, everRead, processed, ambiPackets>>

UpdateCall == EnterUpdateFrame /\ UNCHANGED notAmbi

\* update_frame, line 687: with self._lock
UpdateLock ==
    /\ upc = "wait" /\ lock = "free"
    /\ lock' = "update_frame"
    /\ upc' = "store"
    /\ UNCHANGED <<frame, run_frame, last_frame, upd_img, running, error_count, logged, apc,
                   written, latestAtRead, everRead, processed, ambiPackets>>
    /\ UNCHANGED notAmbi

\* An update_frame that leaves a frame run has not read yet in place.
UpdateFrameKeepUnread ==
    /\ upc = "store"
    /\ frame' = (IF frame # NoFrame /\ frame.id \notin everRead THEN frame ELSE upd_img)
    /\ written' = written + 1
    /\ lock' = "free"
    /\ upd_img' = NoFrame
    /\ upc' = "idle"
    /\ UNCHANGED <<run_frame, last_frame, running, error_count, logged, apc,
                   latestAtRead, everRead, processed, ambiPackets>>
    /\ UNCHANGED notAmbi

\* update_frame, line 688: self.frame = img, and the end of the with block
UpdateFrame ==
    /\ upc = "store"
    /\ frame' = upd_img
    /\ written' = written + 1
    /\ lock' = "free"
    /\ upd_img' = NoFrame
    /\ upc' = "idle"
    /\ UNCHANGED <<run_frame, last_frame, running, error_count, logged, apc,
                   latestAtRead, everRead, processed, ambiPackets>>
    /\ UNCHANGED notAmbi

\* stop, lines 714-715
ClearRunning ==
    /\ running
    /\ running' = FALSE
    /\ UNCHANGED <<frame, run_frame, last_frame, lock, upd_img, upc, error_count, logged, apc,
                   written, latestAtRead, everRead, processed, ambiPackets>>

Stop == ClearRunning /\ UNCHANGED notAmbi

\* A loop that does not look at self.running.
WorkerLoopForever ==
    /\ apc = "loop"
    /\ apc' = "lock"
    /\ UNCHANGED <<frame, run_frame, last_frame, lock, upd_img, upc, running, error_count,
                   logged, written, latestAtRead, everRead, processed, ambiPackets>>
    /\ UNCHANGED notAmbi

\* run, line 692: while self.running
WorkerLoop ==
    /\ apc = "loop"
    /\ apc' = (IF running THEN "lock" ELSE "exit")
    /\ UNCHANGED <<frame, run_frame, last_frame, lock, upd_img, upc, running, error_count,
                   logged, written, latestAtRead, everRead, processed, ambiPackets>>
    /\ UNCHANGED notAmbi

\* run, line 693: with self._lock
WorkerLock ==
    /\ apc = "lock" /\ lock = "free"
    /\ lock' = "run"
    /\ apc' = "read"
    /\ UNCHANGED <<frame, run_frame, last_frame, upd_img, upc, running, error_count,
                   logged, written, latestAtRead, everRead, processed, ambiPackets>>
    /\ UNCHANGED notAmbi

\* A test that takes every frame for a new one.
IsNewAlways(f, last) == f # NoFrame

\* run, line 695: frame is not None and frame is not last_frame
IsNew(f, last) == f # NoFrame /\ f.addr # last.addr

\* A run that keeps the lock while it samples and pushes.
WorkerReadKeepLock ==
    /\ apc = "read"
    /\ run_frame' = frame
    /\ latestAtRead' = written
    /\ everRead' = (IF frame = NoFrame THEN everRead ELSE everRead \cup {frame.id})
    /\ IF IsNew(frame, last_frame)
       THEN /\ last_frame' = frame
            /\ apc' = "push"
            /\ UNCHANGED lock
       ELSE /\ apc' = "sleep"
            /\ lock' = "free"
            /\ UNCHANGED last_frame
    /\ UNCHANGED <<frame, upd_img, upc, running, error_count, logged, written, processed,
                   ambiPackets>>
    /\ UNCHANGED notAmbi

\* run, lines 694-696: frame = self.frame, the end of the with block, the
\* test and last_frame = frame
WorkerRead ==
    /\ apc = "read"
    /\ run_frame' = frame
    /\ lock' = "free"
    /\ latestAtRead' = written
    /\ everRead' = (IF frame = NoFrame THEN everRead ELSE everRead \cup {frame.id})
    /\ IF IsNew(frame, last_frame)
       THEN /\ last_frame' = frame
            /\ apc' = "push"
       ELSE /\ apc' = "sleep"
            /\ UNCHANGED last_frame
    /\ UNCHANGED <<frame, upd_img, upc, running, error_count, logged, written, processed,
                   ambiPackets>>
    /\ UNCHANGED notAmbi

\* A push that never sets the error counter back.
WorkerPushNoReset ==
    /\ apc = "push"
    /\ \E k \in 0..LED_GROUPS :
          /\ ambiPackets' = ambiPackets + k
          /\ processed' = Append(processed, [id |-> run_frame.id, latest |-> latestAtRead,
                                             ok |-> k = LED_GROUPS])
          /\ IF k = LED_GROUPS
             THEN UNCHANGED <<error_count, logged>>
             ELSE /\ error_count' = error_count + 1
                  /\ logged' = (IF error_count + 1 <= 3 THEN logged + 1 ELSE logged)
    /\ apc' = "sleep"
    /\ UNCHANGED <<frame, run_frame, last_frame, lock, upd_img, upc, running, written,
                   latestAtRead, everRead>>
    /\ UNCHANGED notAmbi

\* run, lines 697-711: sample_edge_colors, the greyscale conversion and
\* set_leds, which writes its three packets or raises USBError at one of
\* them (k packets written before); the exception is caught.
WorkerPush ==
    /\ apc = "push"
    /\ \E k \in 0..LED_GROUPS :
          /\ ambiPackets' = ambiPackets + k
          /\ processed' = Append(processed, [id |-> run_frame.id, latest |-> latestAtRead,
                                             ok |-> k = LED_GROUPS])
          /\ IF k = LED_GROUPS
             THEN /\ error_count' = 0
                  /\ UNCHANGED logged
             ELSE /\ error_count' = error_count + 1
                  /\ logged' = (IF error_count + 1 <= 3 THEN logged + 1 ELSE logged)
    /\ apc' = "sleep"
    /\ UNCHANGED <<frame, run_frame, last_frame, lock, upd_img, upc, running, written,
                   latestAtRead, everRead>>
    /\ UNCHANGED notAmbi

\* run, line 712: time.sleep(0.1)
WorkerSleep ==
    /\ apc = "sleep"
    /\ apc' = "loop"
    /\ UNCHANGED <<frame, run_frame, last_frame, lock, upd_img, upc, running, error_count,
                   logged, written, latestAtRead, everRead, processed, ambiPackets>>
    /\ UNCHANGED notAmbi

WorkerStep == WorkerLoop \/ WorkerLock \/ WorkerRead \/ WorkerPush \/ WorkerSleep

NextAmbi == UpdateCall \/ UpdateLock \/ UpdateFrame \/ Stop \/ WorkerStep

StartAmbi == InitAmbi /\ IdleCodec /\ IdleConn /\ IdleSend /\ IdleStream /\ IdleDisplay /\ IdleLed /\ IdleSample /\ IdlePlay /\ IdleShut

SpecAmbi == StartAmbi /\ [][NextAmbi]_vars

\* The worker thread keeps running; a producer waiting for the lock gets it
\* (the worker holds it for one assignment and sleeps 100 ms in every turn).
SpecAmbiFair ==
    SpecAmbi /\ WF_vars(WorkerStep) /\ SF_vars(UpdateLock) /\ WF_vars(UpdateFrame)

(***************************************************************************)
(* Claims about the ambilight worker.                                      *)
(***************************************************************************)
ProcessedIds == {processed[n].id : n \in 1..Len(processed)}

\* C19: the worker never processes the same frame twice: whatever the
\* interleaving of update_frame calls and worker ticks, each frame handed to
\* update_frame is sampled and pushed at most once, and a tick that finds
\* the frame already processed in the slot sends no LED packet.
C19_NoFrameTwice ==
    /\ [](\A m, n \in 1..Len(processed) : processed[m].id = processed[n].id => m = n)
    /\ [](apc = "push" => run_frame.id \notin ProcessedIds)
    /\ [][(apc = "read" /\ apc' # "read" /\ frame.id \in ProcessedIds) =>
             (apc' = "sleep" /\ ambiPackets' = ambiPackets /\ processed' = processed)]_vars
    /\ [][ambiPackets' # ambiPackets => (apc = "push" /\ run_frame.id \notin ProcessedIds)]_vars

\* A tick has found the frame it processed before still in the slot, after
\* two frames were processed.
C19_Witness ==
    /\ Len(processed) = 2
    /\ apc = "sleep" /\ run_frame.id = processed[2].id /\ run_frame = frame
    /\ latestAtRead = written /\ ambiPackets = 6

\* C20: the latest-frame slot is a single slot and the last writer wins: an
\* update_frame overwrites the frame in the slot, read or not; every tick
\* that processes a frame processes the frame written last before the tick
\* read the slot; and a frame overwritten before it was read is never
\* processed afterwards.
C20_LastWriterWins ==
    /\ [](frame.id = written)
    /\ [][written' # written => (written' = written + 1 /\ frame'.id = written')]_vars
    /\ [](apc = "push" => run_frame.id = latestAtRead)
    /\ [](\A n \in 1..Len(processed) : processed[n].id = processed[n].latest)
    /\ [](ProcessedIds \subseteq everRead)
    /\ [][\A i \in 1..written :
             (i < written /\ i \notin everRead) =>
                 (i \notin everRead' /\ i \notin {processed'[n].id : n \in 1..Len(processed')})]_vars

\* Frame 1 was overwritten before the worker read the slot; the worker has
\* processed frame 2 and frame 1 never.
C20_Witness ==
    /\ written >= 2 /\ 1 \notin everRead
    /\ Len(processed) >= 1 /\ processed[1].id = 2


\* The pushes that failed, and those that failed since the last one that
\* did not.
Failures == Cardinality({n \in 1..Len(processed) : ~processed[n].ok})

FailuresInARow ==
    LET F[n \in 0..Len(processed)] ==
            IF n = 0 THEN 0 ELSE IF processed[n].ok THEN 0 ELSE F[n - 1] + 1
    IN F[Len(processed)]

WorkerGoesOn ==
    /\ [](apc = "exit" => ~running)
    /\ [][apc = "push" => apc' \in {"push", "sleep"}]_vars
    /\ [][(apc = "read" /\ apc' # "read" /\ IsNew(frame, last_frame)) => apc' = "push"]_vars

\* C21 as stated: on an LED send failure the worker increments its error
\* counter, logs only the first 3 failures and continues; a failure never
\* ends the worker thread nor keeps a later new frame from being processed;
\* only clearing the running flag stops the worker.
C21_LogsFirstThreeFailures ==
    /\ [](logged = Min(Failures, 3))
    /\ [][Failures' = Failures + 1 => error_count' = error_count + 1]_vars
    /\ WorkerGoesOn

\* C21 amended: the error counter counts the failures since the last push
\* that succeeded, which sets it back to 0; a failure is logged when it is
\* among the first 3 in a row; and the worker continues as stated.
C21_LogsFirstThreeInARow ==
    /\ [](error_count = FailuresInARow)
    /\ [][Failures' = Failures + 1 =>
             logged' = (IF FailuresInARow' <= 3 THEN logged + 1 ELSE logged)]_vars
    /\ [][Failures' = Failures => logged' = logged]_vars
    /\ WorkerGoesOn

\* A fourth failure was logged, three having been logged before a push
\* that succeeded.
C21_Witness ==
    /\ Failures = 4 /\ logged = 4 /\ Len(processed) = 5
    /\ running /\ apc = "sleep"

\* The order of the positions of one turn of run.
Rank(pc) ==
    CASE pc = "lock" -> 1 [] pc = "read" -> 2 [] pc = "push" -> 3
      [] pc = "sleep" -> 4 [] pc = "loop" -> 5 [] pc = "exit" -> 6

\* C22: once the running flag is cleared the worker finishes at most the
\* tick in progress, starts no new tick, emits no LED packet after that and
\* its thread ends.
C22_StopEndsTheWorker ==
    /\ [][~running => Rank(apc') >= Rank(apc)]_vars
    /\ [][(~running /\ apc \in {"sleep", "loop", "exit"}) => ambiPackets' = ambiPackets]_vars
    /\ [][apc = "exit" => apc' = "exit"]_vars
    /\ (~running) ~> (apc = "exit")

\* The flag was cleared during a tick, which was finished; the thread ended.
C22_Witness ==
    /\ ~running /\ apc = "exit"
    /\ Len(processed) = 1 /\ processed[1].latest < written /\ ambiPackets = 3

\* C28: the worker never blocks the producer: the lock is held only for the
\* reference read of run or the reference write of update_frame, never
\* while sampling, sending LED packets or sleeping, so an update_frame
\* completes in every interleaving, also while an LED send is in progress
\* or failing.
C28_ProducerNeverBlocked ==
    /\ [](lock = "run" <=> apc = "read")
    /\ [](lock = "update_frame" <=> upc = "store")
    /\ [][(lock = "run" /\ apc' # apc) => lock' = "free"]_vars
    /\ [][(upc = "wait" /\ lock = "free" /\ apc \in {"push", "sleep"}) => ENABLED UpdateLock]_vars
    /\ (upc = "wait") ~> (upc = "idle")

\* update_frame is inside its with block while the worker is pushing, after
\* a push that failed.
C28_Witness ==
    /\ upc = "store" /\ lock = "update_frame" /\ apc = "push" /\ error_count = 1


(***************************************************************************)
(* SpecSample: sample_edge_colors on an image of one colour.  pos = i *    *)
(* step is a float: when perimeter / num_leds is not an integer the        *)
(* product may come out just below an integer it equals exactly, and then  *)
(* int() and the comparisons see the value below.                          *)
(***************************************************************************)
\* (w, h) of the frames the program samples (480 x 1920, and 120 x 480 from
\* the decoder) and of small frames
FrameSizes == {<<480, 1920>>, <<120, 480>>, <<1, 1>>, <<3, 5>>, <<9, 2>>}

LedCounts == {60, 1, 4, 7}

SampleColours == {<<200, 100, 50>>, <<255, 255, 255>>}

\* sample_size, line 631
SAMPLE_SIZE == 8

InitSample ==
    /\ \E size \in FrameSizes : img_w = size[1] /\ img_h = size[2]
    /\ img_colour \in SampleColours
    /\ num_leds \in LedCounts
    /\ led_i = 0 /\ window = <<0, 0, 0, 0>> /\ colors = <<>> /\ epc = "loop"

Perimeter == 2 * (img_w + img_h)

\* Whether the float i * step can differ from the exact product.
Inexact(i) == i > 0 /\ Perimeter % num_leds # 0

\* int(pos - c) for pos >= c; below: pos came out just below the exact value
IntPos(i, below, c) ==
    LET q == (i * Perimeter) \div num_leds
        r == (i * Perimeter) % num_leds
    IN IF below /\ r = 0 THEN q - 1 - c ELSE q - c

\* pos < c
PosLess(i, below, c) ==
    LET q == (i * Perimeter) \div num_leds
        r == (i * Perimeter) % num_leds
    IN q < c \/ (q = c /\ r = 0 /\ below)

\* lines 636-647: (cx, cy)
Centre(i, below) ==
    CASE PosLess(i, below, img_w) ->
            <<IntPos(i, below, 0), img_h - 1>>
      [] ~PosLess(i, below, img_w) /\ PosLess(i, below, img_w + img_h) ->
            <<img_w - 1, img_h - 1 - IntPos(i, below, img_w)>>
      [] ~PosLess(i, below, img_w + img_h) /\ PosLess(i, below, (2 * img_w) + img_h) ->
            <<img_w - 1 - IntPos(i, below, img_w + img_h), 0>>
      [] OTHER ->
            <<0, IntPos(i, below, (2 * img_w) + img_h)>>

\* The box with its right and lower sides not clipped to the frame.
BoxUnclipped(c) ==
    LET x0 == Max(0, c[1] - (SAMPLE_SIZE \div 2))
        y0 == Max(0, c[2] - (SAMPLE_SIZE \div 2))
    IN <<x0, y0, x0 + SAMPLE_SIZE, y0 + SAMPLE_SIZE>>

\* lines 650-653: (x0, y0, x1, y1)
Box(c) ==
    LET x0 == Max(0, c[1] - (SAMPLE_SIZE \div 2))
        y0 == Max(0, c[2] - (SAMPLE_SIZE \div 2))
    IN <<x0, y0, Min(img_w, x0 + SAMPLE_SIZE), Min(img_h, y0 + SAMPLE_SIZE)>>

\* Pixels of the crop: Image.crop gives the pixels of the box, black where
\* the box lies outside the image, none when the box is empty.
CropLen(b) == Max(0, b[3] - b[1]) * Max(0, b[4] - b[2])

CropInside(b) ==
    Max(0, Min(img_w, b[3]) - Max(0, b[1])) * Max(0, Min(img_h, b[4]) - Max(0, b[2]))

\* lines 657-663: the average of the crop, (0, 0, 0) for an empty one
Average(b) ==
    IF CropLen(b) > 0
    THEN [c \in 1..3 |-> (img_colour[c] * CropInside(b)) \div CropLen(b)]
    ELSE <<0, 0, 0>>

\* lines 634-663: one turn of the loop
SampleStep ==
    /\ epc = "loop" /\ led_i < num_leds
    /\ \E below \in (IF Inexact(led_i) THEN BOOLEAN ELSE {FALSE}) :
          /\ window' = Box(Centre(led_i, below))
          /\ colors' = Append(colors, Average(window'))
    /\ led_i' = led_i + 1
    /\ UNCHANGED <<img_w, img_h, img_colour, num_leds, epc>>
    /\ UNCHANGED notSample

\* line 665: return colors
SampleReturn ==
    /\ epc = "loop" /\ led_i = num_leds
    /\ epc' = "done"
    /\ UNCHANGED <<img_w, img_h, img_colour, num_leds, led_i, window, colors>>
    /\ UNCHANGED notSample

NextSample == SampleStep \/ SampleReturn

StartSample == InitSample /\ IdleCodec /\ IdleConn /\ IdleSend /\ IdleStream /\ IdleDisplay /\ IdleLed /\ IdleAmbi /\ IdlePlay /\ IdleShut

SpecSample == StartSample /\ [][NextSample]_vars

MaxReads == 1
MaxDecoders == 2

\* main, lines 1110-1122 (play: the function makes the worker, loop is
\* not args.no_loop) and 1141-1154 (matrix: the worker is handed in,
\* loop=True, and ffmpeg has encoded the clip before, line 791); the LED
\* handle is open (line 1072) and the worker runs (lines 857-858, 1147-1148).
InitPlay ==
    /\ own_ambi \in BOOLEAN
    /\ amb_loop \in (IF own_ambi THEN BOOLEAN ELSE {TRUE})
    /\ ffmpeg \in (IF own_ambi THEN {"ok", "missing"} ELSE {"ok"})
    /\ decoders = <<>> /\ state_decoder = 0 /\ dec = 0
    /\ read_data = "none" /\ fullReads = 0
    /\ ypc = "y_spawn" /\ rpc = "off"
    /\ streamed = FALSE /\ yret = "none"
    /\ offs = 0 /\ packetsAtOff = 0 /\ ledOpen = TRUE /\ ambi_exc = "none"

\* What the code after play_h264_with_ambilight does first: the matrix
\* command stops the worker (lines 1157-1158), then both reach main's finally.
AfterPlay == IF own_ambi THEN "m_off" ELSE "m_stop"

\* Line 872: state = {'decoder': _start_decoder()}.  Popen raises when
\* ffmpeg cannot be started; nothing catches it in the function.
PlaySpawn ==
    /\ ypc = "y_spawn"
    /\ IF ffmpeg = "ok"
       THEN /\ decoders' = <<"running">>
            /\ state_decoder' = 1
            /\ ypc' = "y_thread"
            /\ UNCHANGED <<yret, ambi_exc>>
       ELSE /\ yret' = "raised"
            /\ ambi_exc' = "popen"
            /\ ypc' = AfterPlay
            /\ UNCHANGED <<decoders, state_decoder>>
    /\ UNCHANGED <<own_ambi, amb_loop, ffmpeg, dec, read_data, fullReads, rpc, streamed,
                   offs, packetsAtOff, ledOpen>>
    /\ UNCHANGED <<ambiVars, notPlayAmbi>>

\* Lines 895-896: decode_thread.start()
PlayThread ==
    /\ ypc = "y_thread"
    /\ rpc' = "r_loop"
    /\ ypc' = "y_play"
    /\ UNCHANGED <<own_ambi, amb_loop, ffmpeg, decoders, state_decoder, dec, read_data,
                   fullReads, streamed, yret, offs, packetsAtOff, ledOpen, ambi_exc>>
    /\ UNCHANGED <<ambiVars, notPlayAmbi>>

\* Lines 898-899: lcd.play_h264(filepath, loop=loop) runs to its end; it
\* returns (also after Ctrl-C, which it catches) or raises.
PlayStream ==
    /\ ypc = "y_play"
    /\ streamed' = TRUE
    /\ yret' \in {"returned", "raised"}
    /\ ypc' = "y_stop"
    /\ UNCHANGED <<own_ambi, amb_loop, ffmpeg, decoders, state_decoder, dec, read_data,
                   fullReads, rpc, offs, packetsAtOff, ledOpen, ambi_exc>>
    /\ UNCHANGED <<ambiVars, notPlayAmbi>>

\* Line 901: ambi.stop()
PlayAmbiStop ==
    /\ ypc = "y_stop"
    /\ ClearRunning
    /\ ypc' = "y_term"
    /\ UNCHANGED <<own_ambi, amb_loop, ffmpeg, decoders, state_decoder, dec, read_data,
                   fullReads, rpc, streamed, yret, offs, packetsAtOff, ledOpen, ambi_exc>>
    /\ UNCHANGED notPlayAmbi

\* Popen.terminate(): SIGTERM to a process that is still there.
Terminate(d) == [decoders EXCEPT ![d] = IF @ = "gone" THEN "gone" ELSE "termed"]

\* Line 903: state['decoder'].terminate()
PlayTerminate ==
    /\ ypc = "y_term"
    /\ decoders' = Terminate(state_decoder)
    /\ ypc' = "y_wait"
    /\ UNCHANGED <<own_ambi, amb_loop, ffmpeg, state_decoder, dec, read_data, fullReads,
                   rpc, streamed, yret, offs, packetsAtOff, ledOpen, ambi_exc>>
    /\ UNCHANGED <<ambiVars, notPlayAmbi>>

\* Line 904: state['decoder'].wait(timeout=2) returns when the process is
\* gone and raises TimeoutExpired when it is still there after 2 s
\* (lines 905-907 then kill it).
PlayWait ==
    /\ ypc = "y_wait"
    /\ ypc' = (IF decoders[state_decoder] = "gone" THEN "y_off" ELSE "y_kill")
    /\ UNCHANGED <<own_ambi, amb_loop, ffmpeg, decoders, state_decoder, dec, read_data,
                   fullReads, rpc, streamed, yret, offs, packetsAtOff, ledOpen, ambi_exc>>
    /\ UNCHANGED <<ambiVars, notPlayAmbi>>

\* Line 907: state['decoder'].kill()
PlayKill ==
    /\ ypc = "y_kill"
    /\ decoders' = [decoders EXCEPT ![state_decoder] = "gone"]
    /\ ypc' = "y_off"
    /\ UNCHANGED <<own_ambi, amb_loop, ffmpeg, state_decoder, dec, read_data, fullReads,
                   rpc, streamed, yret, offs, packetsAtOff, ledOpen, ambi_exc>>
    /\ UNCHANGED <<ambiVars, notPlayAmbi>>

\* Lines 910-911: if own_ambi: led.off().  off() writes its three packets,
\* or raises USBError (LEDDevice._send, line 571) out of the function.
PlayOff ==
    /\ ypc = "y_off"
    /\ IF own_ambi
       THEN \E done \in BOOLEAN :
               IF done
               THEN /\ offs' = offs + 1
                    /\ packetsAtOff' = ambiPackets
                    /\ UNCHANGED <<yret, ambi_exc>>
               ELSE /\ yret' = "raised"
                    /\ ambi_exc' = "led_off"
                    /\ UNCHANGED <<offs, packetsAtOff>>
       ELSE UNCHANGED <<offs, packetsAtOff, yret, ambi_exc>>
    /\ ypc' = AfterPlay
    /\ UNCHANGED <<own_ambi, amb_loop, ffmpeg, decoders, state_decoder, dec, read_data,
                   fullReads, rpc, streamed, ledOpen>>
    /\ UNCHANGED <<ambiVars, notPlayAmbi>>

\* main, lines 1157-1158 (matrix): if ambi: ambi.stop()
MainStop ==
    /\ ypc = "m_stop"
    /\ running' = FALSE
    /\ ypc' = "m_off"
    /\ UNCHANGED <<frame, run_frame, last_frame, lock, upd_img, upc, error_count, logged, apc,
                   written, latestAtRead, everRead, processed, ambiPackets>>
    /\ UNCHANGED <<own_ambi, amb_loop, ffmpeg, decoders, state_decoder, dec, read_data,
                   fullReads, rpc, streamed, yret, offs, packetsAtOff, ledOpen, ambi_exc>>
    /\ UNCHANGED notPlayAmbi

\* main, lines 1178-1179: if led: led.off(); a USBError leaves main.
MainOff ==
    /\ ypc = "m_off"
    /\ \E done \in BOOLEAN :
          IF done
          THEN /\ offs' = offs + 1
               /\ packetsAtOff' = ambiPackets
               /\ ypc' = "m_close"
               /\ UNCHANGED ambi_exc
          ELSE /\ ambi_exc' = "led_off"
               /\ ypc' = "exit"
               /\ UNCHANGED <<offs, packetsAtOff>>
    /\ UNCHANGED <<own_ambi, amb_loop, ffmpeg, decoders, state_decoder, dec, read_data,
                   fullReads, rpc, streamed, yret, ledOpen>>
    /\ UNCHANGED <<ambiVars, notPlayAmbi>>

\* main, line 1180: led.close(), and the process ends.
MainCloseLed ==
    /\ ypc = "m_close"
    /\ ledOpen' = FALSE
    /\ ypc' = "exit"
    /\ UNCHANGED <<own_ambi, amb_loop, ffmpeg, decoders, state_decoder, dec, read_data,
                   fullReads, rpc, streamed, yret, offs, packetsAtOff, ambi_exc>>
    /\ UNCHANGED <<ambiVars, notPlayAmbi>>

MainStep ==
    \/ PlaySpawn \/ PlayThread \/ PlayStream \/ PlayAmbiStop \/ PlayTerminate \/ PlayWait
    \/ PlayKill \/ PlayOff \/ MainStop \/ MainOff \/ MainCloseLed

\* decode_loop, line 875: while ambi.running
ReaderLoop ==
    /\ rpc = "r_loop" /\ ypc # "exit"
    /\ rpc' = (IF running THEN "r_read" ELSE "r_exit")
    /\ UNCHANGED <<own_ambi, amb_loop, ffmpeg, decoders, state_decoder, dec, read_data,
                   fullReads, ypc, streamed, yret, offs, packetsAtOff, ledOpen, ambi_exc>>
    /\ UNCHANGED <<ambiVars, notPlayAmbi>>

\* decode_loop, lines 876-878: dec = state['decoder'], the blocking
\* dec.stdout.read(frame_size) and the test of what it gave.  A decoder that
\* is there delivers a full frame; one that is gone leaves nothing or the
\* part of a frame it had written.
ReaderRead ==
    /\ rpc = "r_read" /\ ypc # "exit"
    /\ dec' = state_decoder
    /\ IF decoders[state_decoder] = "gone"
       THEN /\ read_data' \in {"empty", "short"}
            /\ rpc' = "r_eof"
            /\ UNCHANGED fullReads
       ELSE /\ fullReads < MaxReads
            /\ read_data' = "full"
            /\ fullReads' = fullReads + 1
            /\ rpc' = "r_frame"
    /\ UNCHANGED <<own_ambi, amb_loop, ffmpeg, decoders, state_decoder, ypc, streamed, yret,
                   offs, packetsAtOff, ledOpen, ambi_exc>>
    /\ UNCHANGED <<ambiVars, notPlayAmbi>>

\* decode_loop, lines 889-891: Image.frombytes on a frame of the full size
\* and ambi.update_frame(img)
ReaderFrame ==
    /\ rpc = "r_frame" /\ ypc # "exit"
    /\ EnterUpdateFrame
    /\ rpc' = "r_update"
    /\ UNCHANGED <<own_ambi, amb_loop, ffmpeg, decoders, state_decoder, dec, read_data,
                   fullReads, ypc, streamed, yret, offs, packetsAtOff, ledOpen, ambi_exc>>
    /\ UNCHANGED notPlayAmbi

\* update_frame has returned; decode_loop goes round.
ReaderUpdated ==
    /\ rpc = "r_update" /\ ypc # "exit"
    /\ upc = "idle"
    /\ rpc' = "r_loop"
    /\ UNCHANGED <<own_ambi, amb_loop, ffmpeg, decoders, state_decoder, dec, read_data,
                   fullReads, ypc, streamed, yret, offs, packetsAtOff, ledOpen, ambi_exc>>
    /\ UNCHANGED <<ambiVars, notPlayAmbi>>

\* An end of file that restarts the decoder whether playback loops or not.
ReaderEofAlways ==
    /\ rpc = "r_eof" /\ ypc # "exit"
    /\ rpc' = (IF running THEN "r_term" ELSE "r_exit")
    /\ UNCHANGED <<own_ambi, amb_loop, ffmpeg, decoders, state_decoder, dec, read_data,
                   fullReads, ypc, streamed, yret, offs, packetsAtOff, ledOpen, ambi_exc>>
    /\ UNCHANGED <<ambiVars, notPlayAmbi>>

\* decode_loop, lines 880 and 888: if loop and ambi.running, else break
ReaderEof ==
    /\ rpc = "r_eof" /\ ypc # "exit"
    /\ rpc' = (IF amb_loop /\ running THEN "r_term" ELSE "r_exit")
    /\ UNCHANGED <<own_ambi, amb_loop, ffmpeg, decoders, state_decoder, dec, read_data,
                   fullReads, ypc, streamed, yret, offs, packetsAtOff, ledOpen, ambi_exc>>
    /\ UNCHANGED <<ambiVars, notPlayAmbi>>

\* decode_loop, line 882: dec.terminate()
ReaderTerminate ==
    /\ rpc = "r_term" /\ ypc # "exit"
    /\ decoders' = Terminate(dec)
    /\ rpc' = "r_wait"
    /\ UNCHANGED <<own_ambi, amb_loop, ffmpeg, state_decoder, dec, read_data, fullReads,
                   ypc, streamed, yret, offs, packetsAtOff, ledOpen, ambi_exc>>
    /\ UNCHANGED <<ambiVars, notPlayAmbi>>

\* decode_loop, lines 883-885: dec.wait(timeout=2); TimeoutExpired is
\* swallowed, the decoder is left as it is.
ReaderWait ==
    /\ rpc = "r_wait" /\ ypc # "exit"
    /\ rpc' = "r_spawn"
    /\ UNCHANGED <<own_ambi, amb_loop, ffmpeg, decoders, state_decoder, dec, read_data,
                   fullReads, ypc, streamed, yret, offs, packetsAtOff, ledOpen, ambi_exc>>
    /\ UNCHANGED <<ambiVars, notPlayAmbi>>

\* decode_loop, lines 886-887: state['decoder'] = _start_decoder(); continue
ReaderSpawn ==
    /\ rpc = "r_spawn" /\ ypc # "exit"
    /\ Len(decoders) < MaxDecoders
    /\ decoders' = Append(decoders, "running")
    /\ state_decoder' = Len(decoders) + 1
    /\ rpc' = "r_loop"
    /\ UNCHANGED <<own_ambi, amb_loop, ffmpeg, dec, read_data, fullReads, ypc, streamed,
                   yret, offs, packetsAtOff, ledOpen, ambi_exc>>
    /\ UNCHANGED <<ambiVars, notPlayAmbi>>

ReaderStep ==
    \/ ReaderLoop \/ ReaderRead \/ ReaderFrame \/ ReaderUpdated \/ ReaderEof
    \/ ReaderTerminate \/ ReaderWait \/ ReaderSpawn

\* A decoder process ends: ffmpeg has written the last frame of the file,
\* has failed, or has acted on SIGTERM.
DecoderExits ==
    /\ \E d \in 1..Len(decoders) :
          /\ decoders[d] # "gone"
          /\ decoders' = [decoders EXCEPT ![d] = "gone"]
    /\ UNCHANGED <<own_ambi, amb_loop, ffmpeg, state_decoder, dec, read_data, fullReads,
                   ypc, rpc, streamed, yret, offs, packetsAtOff, ledOpen, ambi_exc>>
    /\ UNCHANGED <<ambiVars, notPlayAmbi>>

\* AmbilightThread.run while the process lives (the thread is a daemon).
\* With the handle closed self.dev is None, set_leds raises at its first
\* packet and run catches it (line 708).
PlayWorker ==
    /\ ypc # "exit"
    /\ WorkerStep
    /\ (ledOpen \/ ambiPackets' = ambiPackets)

\* update_frame, called by decode_loop, while the process lives.
PlayUpdate ==
    /\ ypc # "exit"
    /\ (UpdateLock \/ UpdateFrame)

NextPlay == MainStep \/ ReaderStep \/ DecoderExits \/ PlayWorker \/ PlayUpdate

StartPlay == InitPlay /\ InitAmbi /\ IdleCodec /\ IdleConn /\ IdleSend /\ IdleStream /\ IdleDisplay /\ IdleLed /\ IdleSample /\ IdleShut

SpecPlay == StartPlay /\ [][NextPlay]_vars


(***************************************************************************)
(* Claims about playback with ambilight.                                   *)
(***************************************************************************)

\* update_frame calls made so far: those that have stored their frame and
\* the one under way.
UpdateCalls == written + (IF upc = "idle" THEN 0 ELSE 1)

\* One step of decode_loop seen from outside.
ReaderRule ==
    /\ (rpc = "r_read" /\ rpc' # rpc) =>
          rpc' = (IF read_data' = "full" THEN "r_frame" ELSE "r_eof")
    /\ (rpc = "r_eof" /\ rpc' # rpc) =>
          rpc' = (IF amb_loop /\ running THEN "r_term" ELSE "r_exit")
    /\ (rpc = "r_term" /\ rpc' # rpc) =>
          /\ dec = state_decoder
          /\ decoders'[state_decoder] # "running"
          /\ rpc' = "r_wait"
    /\ (rpc = "r_wait" /\ rpc' # rpc) => (rpc' = "r_spawn" /\ decoders' = decoders)
    /\ (rpc = "r_spawn" /\ rpc' # rpc) =>
          /\ Len(decoders') = Len(decoders) + 1
          /\ state_decoder' = Len(decoders')
          /\ decoders'[state_decoder'] = "running"
          /\ rpc' = "r_loop"
    /\ Len(decoders') # Len(decoders) =>
          /\ Len(decoders') = Len(decoders) + 1
          /\ ypc = "y_spawn" \/ rpc = "r_spawn"

FunctionEnded == ypc \in {"m_stop", "m_off", "m_close", "exit"}

\* C24: whatever happens on the ambilight side (an LED send fails, the
\* decoder ends early or cannot be started), when play_h264_with_ambilight
\* ends lcd.play_h264 has been run to its end, and no exception of the
\* ambilight side has reached the caller.
C24_StreamUnaffected == (ypc = AfterPlay) => (streamed /\ ambi_exc = "none")

\* C30: once play_h264_with_ambilight has ended and decode_loop has
\* ended, every decoder process the function has spawned is gone.
C30_NoOrphanedDecoder ==
    (FunctionEnded /\ rpc \in {"off", "r_exit"}) =>
        \A d \in 1..Len(decoders) : decoders[d] = "gone"

\* C23: when the process ends after a playback that returned and after
\* off() calls that went through, the packets of the last off() are the last
\* LED packets written: the worker has written none since.
C23_RingEndsDark ==
    (ypc = "exit" /\ yret = "returned" /\ ambi_exc = "none") =>
        (offs > 0 /\ ambiPackets = packetsAtOff)


(***************************************************************************)
(* SpecShutdown: the LED handle at the end of the play command with        *)
(* ambilight.  The AmbilightThread runs as in SpecAmbi, but its set_leds   *)
(* (line 706) is taken packet by packet; the main thread leaves            *)
(* lcd.play_h264, stops the worker (line 901), calls led.off() (line 911), *)
(* and in main's finally led.off() and led.close() (lines 1179-1180).      *)
(* The decoder side of the teardown is the subject of SpecPlay.            *)
(***************************************************************************)

\* Frames handed to update_frame in the behaviours explored.
MaxShutFrames == 2

InitShut ==
    /\ wire = <<>> /\ set_group = 0 /\ off_group = 0
    /\ zpc = "play" /\ led_dev = "open"

\* decode_loop, line 891: ambi.update_frame(img), while the worker runs
ShutFrame ==
    /\ zpc # "exit"
    /\ running
    /\ written < MaxShutFrames
    /\ EnterUpdateFrame
    /\ UNCHANGED <<shutVars, notShutAmbi>>

\* update_frame, lines 687-688, while the process lives
ShutUpdate ==
    /\ zpc # "exit"
    /\ (UpdateLock \/ UpdateFrame)

\* AmbilightThread.run outside set_leds, while the process lives
ShutWorker ==
    /\ zpc # "exit"
    /\ (WorkerLoop \/ WorkerLock \/ WorkerRead \/ WorkerSleep)

\* run, lines 708-711: the except branch
PushFailed ==
    /\ processed' = Append(processed, [id |-> run_frame.id, latest |-> latestAtRead,
                                       ok |-> FALSE])
    /\ error_count' = error_count + 1
    /\ logged' = (IF error_count + 1 <= 3 THEN logged + 1 ELSE logged)
    /\ apc' = "sleep"
    /\ set_group' = 0

\* set_leds called by run, lines 593-604: one turn of the loop, with
\* _send(pkt, read=False), line 571.  The write raises when the handle is
\* closed (self.dev is None) and may raise USBError; run catches both.
PushPacket ==
    /\ zpc # "exit"
    /\ apc = "push" /\ set_group < LED_GROUPS
    /\ \E ok \in (IF led_dev = "open" THEN BOOLEAN ELSE {FALSE}) :
          IF ok
          THEN /\ wire' = Append(wire, [by |-> "run", call |-> Len(processed) + 1,
                                        group |-> set_group])
               /\ ambiPackets' = ambiPackets + 1
               /\ set_group' = set_group + 1
               /\ UNCHANGED <<processed, error_count, logged, apc>>
          ELSE /\ PushFailed
               /\ UNCHANGED <<wire, ambiPackets>>
    /\ UNCHANGED <<frame, run_frame, last_frame, lock, upd_img, upc, running, written,
                   latestAtRead, everRead>>
    /\ UNCHANGED <<off_group, zpc, led_dev>>
    /\ UNCHANGED notShutAmbi

\* run, lines 706-707: set_leds has returned, self._error_count = 0
PushDone ==
    /\ zpc # "exit"
    /\ apc = "push" /\ set_group = LED_GROUPS
    /\ processed' = Append(processed, [id |-> run_frame.id, latest |-> latestAtRead,
                                       ok |-> TRUE])
    /\ error_count' = 0
    /\ apc' = "sleep"
    /\ set_group' = 0
    /\ UNCHANGED <<frame, run_frame, last_frame, lock, upd_img, upc, running, logged, written,
                   latestAtRead, everRead, ambiPackets>>
    /\ UNCHANGED <<wire, off_group, zpc, led_dev>>
    /\ UNCHANGED notShutAmbi

\* play_h264_with_ambilight, lines 899-901: lcd.play_h264 has ended,
\* ambi.stop()
ShutStop ==
    /\ zpc = "play"
    /\ ClearRunning
    /\ zpc' = "off"
    /\ UNCHANGED <<wire, set_group, off_group, led_dev>>
    /\ UNCHANGED notShutAmbi

\* led.off(), line 911 and line 1179: one turn of the loop of set_leds,
\* lines 593-604.  A USBError at line 911 leaves the function for main's
\* finally, one at line 1179 leaves main.
OffPacket ==
    /\ zpc \in {"off", "main_off"}
    /\ \E ok \in BOOLEAN :
          IF ok
          THEN /\ wire' = Append(wire, [by |-> "main", call |-> zpc, group |-> off_group])
               /\ IF off_group + 1 = LED_GROUPS
                  THEN /\ off_group' = 0
                       /\ zpc' = (IF zpc = "off" THEN "main_off" ELSE "close")
                  ELSE /\ off_group' = off_group + 1
                       /\ UNCHANGED zpc
          ELSE /\ off_group' = 0
               /\ zpc' = (IF zpc = "off" THEN "main_off" ELSE "exit")
               /\ UNCHANGED wire
    /\ UNCHANGED <<set_group, led_dev>>
    /\ UNCHANGED <<ambiVars, notShutAmbi>>

\* main, line 1180: led.close(), lines 560-566, and the process ends
ShutClose ==
    /\ zpc = "close"
    /\ led_dev' = "none"
    /\ zpc' = "exit"
    /\ UNCHANGED <<wire, set_group, off_group>>
    /\ UNCHANGED <<ambiVars, notShutAmbi>>

NextShut ==
    \/ ShutFrame \/ ShutUpdate \/ ShutWorker \/ PushPacket \/ PushDone
    \/ ShutStop \/ OffPacket \/ ShutClose

StartShut == InitShut /\ InitAmbi /\ IdleCodec /\ IdleConn /\ IdleSend /\ IdleStream /\ IdleDisplay /\ IdleLed /\ IdleSample /\ IdlePlay

SpecShutdown == StartShut /\ [][NextShut]_vars

(***************************************************************************)
(* Claims about the LED handle at shutdown.                                *)
(***************************************************************************)

\* A thread is inside an LED operation: it has written a packet of a set
\* call and has more of that call to write.
RunInSetLeds == apc = "push" /\ set_group \in 1..(LED_GROUPS - 1)
MainInOff == zpc \in {"off", "main_off"} /\ off_group \in 1..(LED_GROUPS - 1)

\* Between two packets of one call no packet of another call was written.
WireInOrder ==
    \A i, j, k \in 1..Len(wire) :
        (i < j /\ j < k /\ wire[i].by = wire[k].by /\ wire[i].call = wire[k].call) =>
            (wire[j].by = wire[i].by /\ wire[j].call = wire[i].call)

\* C31: the worker and the main thread are never inside an LED operation
\* at once: off() does not start, and close() does not happen, while a
\* set_leds of the worker is between its packets, and the packets of one set
\* call are never interleaved with those of another.
C31_SingleOwner ==
    /\ ~(RunInSetLeds /\ MainInOff)
    /\ RunInSetLeds => led_dev = "open"
    /\ WireInOrder

=============================================================================
